---- MODULE Spec2Model ----
(***************************************************************************)
(* Verification model of the Collaborator bot: the Graph API gateway       *)
(* client (GraphClient: token cache, graphGet/graphPost retry loop,        *)
(* updatePlannerTask), the manager router (ManagerPrompt) with the         *)
(* message handler around it, the conversation storage (StorageFactory,    *)
(* SqlJsKVStore, MssqlKVStore, ConversationMemory) and process startup.    *)
(*                                                                         *)
(* Times are milliseconds, as in the code (Date.now(), setTimeout).  The   *)
(* clock starts at StartTime, a positive instant, because the code adds    *)
(* Date.now() to the provider's absolute expiry instant.                   *)
(***************************************************************************)
EXTENDS Integers, Sequences, FiniteSets, TLC

\* ------------------------------------------------------------------ bounds
StartTime == 1000000
Horizon == 9000
MaxToolCalls == 2

MaxNow == StartTime + Horizon
\* The clock is followed over two windows: the first Horizon ms, and
\* LateHorizon ms from the instant a token granted at StartTime without a
\* reported expiry stops being valid.
LateHorizon == 3000

\* ------------------------------------------------------ program constants
\* graphGet / graphPost: retries = 3
Retries == 3
\* Math.pow(2, attempt - 1) * 1000
BaseDelayMs == 1000
\* getAccessToken: ... - 300000
SafetyMarginMs == 300000
\* getAccessToken: result.expiresOn?.getTime() || 3600000
DefaultExpiresMs == 3600000

\* ------------------------------------------------------------ input sets
\* Lifetimes the identity provider may grant (expiresOn = now + lifetime).
Lifetimes == {302000, 3600000}
\* Clock steps between requests.
TickSteps == {2000, DefaultExpiresMs - SafetyMarginMs}
\* the instants the clock may reach
InWindow(t) ==
  \/ t <= MaxNow
  \/ /\ t >= StartTime + DefaultExpiresMs - SafetyMarginMs
     /\ t <= StartTime + DefaultExpiresMs - SafetyMarginMs + LateHorizon
\* HTTP statuses the API may answer; 0 stands for fetch() rejecting
\* (transport / network exception).
NetworkError == 0
Statuses == {201, 202, 204, 404, 429, 503}
\* A response: its status and whether its body parses as JSON.
Responses == [status : Statuses \cup {NetworkError}, json : BOOLEAN]
Methods == {"GET", "POST"}

VARIABLES
  now,          \* Date.now()
  accessToken,  \* GraphClient.accessToken (0 = null), a token id
  tokenExpiry,  \* GraphClient.tokenExpiry (0 = null)
  issued,       \* identity provider: issued[id] = expiresOn of token id (0 = none reported)
  lastGet,      \* history: the last getAccessToken call
  reqPc,        \* position of the graphGet/graphPost call: "idle", "attempt", "done"
  reqMethod,    \* "GET" or "POST"
  attempt,      \* loop variable of the retry loop
  reqToken,     \* const token of the call
  attemptLog,   \* history: HTTP attempts of the call, [t, tok, status, performed]
  sleeps,       \* history: backoff delays slept during the call
  lastError,    \* let lastError
  reqResult,    \* what the call gave its caller
  staleOutcome, \* history: last outcome of an update with a stale If-Match
  missingOutcome, \* history: last outcome of an update of a non-existent task
  rPc,          \* position of ManagerPrompt.processRequest
  invoked,      \* history: capability handlers invoked for this message
  timeRangeCalls, \* history: calculate_time_range runs for this message
  toolCalls,    \* number of tool calls the oracle has made for this message
  startTime,    \* context.startTime
  endTime,      \* context.endTime
  reply,        \* ManagerResult.response, a sequence of text parts
  rError,       \* history: the error caught by processRequest (NothingThrown if none)
  memory,       \* context.memory: the stored records of this conversation
  apologies,    \* history: the replies given by failed processRequest runs
  hPc,          \* position of the "message" handler
  activity,     \* the inbound activity being handled
  loaded,       \* history: what memory.values() gave createManagerPrompt
  outbox,       \* history: the replies sent for the activity being handled
  writes,       \* history: addMessages calls made for the activity being handled
  handled,      \* number of activities the handler has taken
  context,      \* the MessageContext of the activity, less its time range
  storage,      \* the IDatabase a createStorage call returned
  lastCreate,   \* history: the last createStorage call
  rows,         \* table conversations, in insertion order
  cleared,      \* history: per conversation, rows deleted by a clear not followed by an append
  sPc,          \* "idle", or "returned" when a read has just returned
  lastRead,     \* history: the read that has just returned
  env,          \* process.env: the settings that are set
  bPc,          \* position of the process: "undeployed", "boot", "running", "exited"
  dbType,       \* DATABASE_CONFIG.type
  reported,     \* settings named by the fatal configuration error
  appStarted,   \* app.start(port) was called
  delivered,    \* number of activities the app has dispatched to handlers
  graphMissing, \* settings getGraphClient reported missing
  mail,         \* history: the last call of an email tool, what it posted and returned
  callers,      \* per concurrent caller of getAccessToken: position, awaited result, value returned
  expiryFrom,   \* history: the acquisition (token) whose continuation set tokenExpiry
  feedback,     \* table feedback, in insertion order
  lastFeedback, \* history: the last feedback activity handled and what came of it
  transcript,   \* history: the cues of the last transcript parsed and the entries returned
  store,        \* one store object through its life: its handle, its data, what was called on it
  lastOp,       \* history: the last operation on that store and what came of it
  pipelines,    \* the "message" handlers running side by side on one conversation
  conversation, \* the records stored for that conversation
  bulk          \* one bulk_create_tasks call: its arguments, its loop, what it returned

gatewayVars == <<now, accessToken, tokenExpiry, issued, lastGet, reqPc, reqMethod,
                 attempt, reqToken, attemptLog, sleeps, lastError, reqResult,
                 staleOutcome, missingOutcome>>
routerVars == <<rPc, invoked, timeRangeCalls, toolCalls, startTime, endTime, reply, rError,
               memory, apologies>>
handlerVars == <<hPc, activity, loaded, outbox, writes, handled, context>>
storageVars == <<storage, lastCreate, rows, cleared, sPc, lastRead>>
bootVars == <<env, bPc, dbType, reported, appStarted, delivered, graphMissing>>
mailVars == <<mail>>
refreshVars == <<callers, expiryFrom>>
feedbackVars == <<feedback, lastFeedback>>
transcriptVars == <<transcript>>
lifecycleVars == <<store, lastOp>>
serviceVars == <<mailVars, refreshVars, feedbackVars, transcriptVars>>
pipelineVars == <<pipelines, conversation>>
bulkVars == <<bulk>>
extraVars == <<lifecycleVars, pipelineVars, bulkVars>>
vars == <<gatewayVars, routerVars, handlerVars, storageVars, bootVars, serviceVars, extraVars>>
\* what the actions of one component leave alone
outsideGateway == <<routerVars, handlerVars, storageVars, bootVars, serviceVars, extraVars>>
outsideRouter == <<gatewayVars, storageVars, bootVars, serviceVars, extraVars>>
outsideStorage == <<gatewayVars, routerVars, handlerVars, bootVars, serviceVars, extraVars>>
outsideBoot == <<gatewayVars, routerVars, handlerVars, serviceVars, extraVars>>
outsideMail == <<gatewayVars, routerVars, handlerVars, storageVars, bootVars, refreshVars,
                 feedbackVars, transcriptVars, extraVars>>
outsideFeedback == <<gatewayVars, routerVars, handlerVars, storageVars, bootVars, mailVars,
                     refreshVars, transcriptVars, extraVars>>
outsideTranscript == <<gatewayVars, routerVars, handlerVars, storageVars, bootVars, mailVars,
                       refreshVars, feedbackVars, extraVars>>
outsideLifecycle == <<gatewayVars, routerVars, handlerVars, storageVars, bootVars, serviceVars,
                      pipelineVars, bulkVars>>
outsidePipelines == <<gatewayVars, routerVars, handlerVars, storageVars, bootVars, serviceVars,
                      lifecycleVars, bulkVars>>
outsideBulk == <<gatewayVars, routerVars, handlerVars, storageVars, bootVars, serviceVars,
                 lifecycleVars, pipelineVars>>
\* what a concurrent getAccessToken leaves alone: the request in flight and
\* everything outside the GraphClient
outsideRefresh == <<lastGet, reqPc, reqMethod, attempt, reqToken, attemptLog, sleeps,
                    lastError, reqResult, staleOutcome, missingOutcome,
                    routerVars, handlerVars, storageVars, bootVars, mailVars, feedbackVars,
                    transcriptVars, extraVars>>

\* ------------------------------------------------------------ helpers
RECURSIVE Pow2(_)
Pow2(n) == IF n <= 0 THEN 1 ELSE 2 * Pow2(n - 1)

NoError == [kind |-> "none", status |-> 0]
HttpError(s) == [kind |-> "http", status |-> s]
FetchError == [kind |-> "fetch", status |-> 0]
JsonError == [kind |-> "json", status |-> 0]
AuthError == [kind |-> "auth", status |-> 0]

Pending == [tag |-> "pending", status |-> 0, err |-> NoError]
Success(s) == [tag |-> "success", status |-> s, err |-> NoError]
Failure(e) == [tag |-> "error", status |-> e.status, err |-> e]

\* response.ok
Ok(s) == s >= 200 /\ s <= 299
\* response.status >= 400 && response.status < 500 && response.status !== 429
Terminal4xx(s) == s >= 400 /\ s < 500 /\ s # 429
\* the statuses the retry loop is meant to retry
RetryableStatus(s) == s = 429 \/ (s >= 500 /\ s <= 599)

\* a backoff that doubles one attempt too early
DelayFromTwo(a) == Pow2(a) * BaseDelayMs

\* Math.pow(2, attempt - 1) * 1000
Delay(a) == Pow2(a - 1) * BaseDelayMs

\* this.accessToken && this.tokenExpiry && new Date() < this.tokenExpiry
CacheValid == accessToken # 0 /\ tokenExpiry # 0 /\ now < tokenExpiry

\* new Date(Date.now() + (result.expiresOn?.getTime() || 3600000) - 300000)
NewTokenExpiry(expiresOn) ==
  now + (IF expiresOn # 0 THEN expiresOn ELSE DefaultExpiresMs) - SafetyMarginMs

\* ------------------------------------------------- GraphClient: token cache
\* The record kept of a getAccessToken call: when it ran, the cache it found
\* (token, that token's reported expiry, tokenExpiry), the token returned
\* (0 = the call threw), whether the identity provider was asked, and how
\* many times acquireTokenByClientCredential was called.
GetRecord(t, acq) ==
  [t |-> now, prev |-> accessToken,
   prevE |-> IF accessToken # 0 THEN issued[accessToken] ELSE 0,
   prevExpiry |-> tokenExpiry, tok |-> t, acquired |-> acq,
   calls |-> IF acq THEN 1 ELSE 0]

\* a getAccessToken whose failed acquisition also drops the cached token
GetAccessTokenDroppingCache(tok) ==
  IF CacheValid
    THEN /\ tok = accessToken
         /\ lastGet' = GetRecord(tok, FALSE)
         /\ UNCHANGED <<accessToken, tokenExpiry, issued>>
    ELSE \/ \E expiresOn \in {0} \cup {now + l : l \in Lifetimes} :
              /\ tok = Len(issued) + 1
              /\ issued' = Append(issued, expiresOn)
              /\ accessToken' = tok
              /\ tokenExpiry' = NewTokenExpiry(expiresOn)
              /\ lastGet' = GetRecord(tok, TRUE)
         \/ /\ tok = 0
            /\ lastGet' = GetRecord(0, TRUE)
            /\ accessToken' = 0
            /\ tokenExpiry' = 0
            /\ UNCHANGED issued

\* getAccessToken(): tok is the value returned, 0 when the call throws.
\* The cached token is returned while the cache test passes; otherwise the
\* identity provider is asked once: it grants a token (with or without a
\* reported expiresOn) or the acquisition fails (the provider rejects, or
\* result.accessToken is empty) and the error is rethrown by the catch.
GetAccessToken(tok) ==
  IF CacheValid
    THEN /\ tok = accessToken
         /\ lastGet' = GetRecord(tok, FALSE)
         /\ UNCHANGED <<accessToken, tokenExpiry, issued>>
    ELSE \/ \E expiresOn \in {0} \cup {now + l : l \in Lifetimes} :
              /\ tok = Len(issued) + 1
              /\ issued' = Append(issued, expiresOn)
              /\ accessToken' = tok
              /\ tokenExpiry' = NewTokenExpiry(expiresOn)
              /\ lastGet' = GetRecord(tok, TRUE)
         \/ /\ tok = 0
            /\ lastGet' = GetRecord(0, TRUE)
            /\ UNCHANGED <<accessToken, tokenExpiry, issued>>

\* ------------------------------------- GraphClient: graphGet / graphPost
\* Entry of graphGet/graphPost: const token = await this.getAccessToken();
\* let lastError = null; then the loop starts with attempt = 1.
StartRequest(m) ==
  /\ reqPc = "idle"
  /\ InWindow(now + Delay(1) + Delay(2))
  /\ reqMethod' = m
  /\ attemptLog' = <<>>
  /\ sleeps' = <<>>
  /\ lastError' = NoError
  /\ attempt' = 1
  /\ \E tok \in 0..(Len(issued) + 1) :
       /\ GetAccessToken(tok)
       /\ reqToken' = tok
       /\ IF tok = 0
            THEN reqPc' = "done" /\ reqResult' = Failure(AuthError)
            ELSE reqPc' = "attempt" /\ reqResult' = Pending
  /\ UNCHANGED <<now, staleOutcome, missingOutcome, outsideGateway>>

\* The catch block of the loop body: lastError = error; sleep and go round
\* again when attempt < retries; otherwise the loop ends and lastError is
\* thrown after it.
CatchAndRetry(e) ==
  /\ lastError' = e
  /\ IF attempt < Retries
       THEN /\ sleeps' = Append(sleeps, Delay(attempt))
            /\ now' = now + Delay(attempt)
            /\ attempt' = attempt + 1
            /\ UNCHANGED <<reqPc, reqResult>>
       ELSE /\ reqPc' = "done"
            /\ reqResult' = Failure(e)
            /\ UNCHANGED <<sleeps, now, attempt>>

\* The tail of the try block: the 204 shortcut of graphPost, then
\* return response.json().  The promise is returned, not awaited, so a body
\* that does not parse rejects the call without passing through the catch.
ReturnBody(resp) ==
  /\ reqPc' = "done"
  /\ reqResult' = IF reqMethod = "POST" /\ resp.status = 204 THEN Success(resp.status)
                  ELSE IF resp.json THEN Success(resp.status)
                  ELSE Failure(JsonError)
  /\ UNCHANGED <<sleeps, now, attempt>>

\* Whether the API carried out the request it answered with status s: a
\* GET changes nothing; a POST answered 2xx was carried out, one answered
\* 4xx was refused, and one that ended in a server error or in a transport
\* exception may or may not have been carried out before the failure.
PerformedOn(m, s) ==
  IF m = "GET" THEN {FALSE}
  ELSE IF Ok(s) THEN {TRUE}
  ELSE IF s = NetworkError \/ s >= 500 THEN {TRUE, FALSE}
  ELSE {FALSE}

\* One iteration of the retry loop: one fetch and what follows it.
GraphAttempt(resp) ==
  /\ reqPc = "attempt"
  /\ \E did \in PerformedOn(reqMethod, resp.status) :
       attemptLog' = Append(attemptLog, [t |-> now, tok |-> reqToken,
                                         status |-> resp.status, performed |-> did])
  /\ IF resp.status = NetworkError
       THEN CatchAndRetry(FetchError)
       ELSE IF ~Ok(resp.status)
         THEN IF Terminal4xx(resp.status)
                \* throw lastError, inside the try block
                THEN CatchAndRetry(HttpError(resp.status))
                ELSE IF attempt < Retries
                  THEN /\ lastError' = HttpError(resp.status)
                       /\ sleeps' = Append(sleeps, Delay(attempt))
                       /\ now' = now + Delay(attempt)
                       /\ attempt' = attempt + 1
                       /\ UNCHANGED <<reqPc, reqResult>>
                  ELSE /\ lastError' = HttpError(resp.status)
                       /\ ReturnBody(resp)
         ELSE /\ UNCHANGED lastError
              /\ ReturnBody(resp)
  /\ UNCHANGED <<accessToken, tokenExpiry, issued, lastGet, reqMethod, reqToken,
                 staleOutcome, missingOutcome, outsideGateway>>

\* graphGet/graphPost has returned or thrown: its locals are gone and the
\* client is free for the next call.
ReturnToCaller ==
  /\ reqPc = "done"
  /\ reqPc' = "idle"
  /\ reqMethod' = "GET"
  /\ attempt' = 1
  /\ reqToken' = 0
  /\ attemptLog' = <<>>
  /\ sleeps' = <<>>
  /\ lastError' = NoError
  /\ reqResult' = Pending
  /\ UNCHANGED <<now, accessToken, tokenExpiry, issued, lastGet,
                 staleOutcome, missingOutcome, outsideGateway>>

\* ------------------------------------- GraphClient: public operations
\* Operations built on graphGet / graphPost, each a try block around the
\* call with a catch that returns the operation's empty result.
Operations == {"getUserPlans", "getUserByEmail", "createPlannerTask", "sendEmail"}
MethodOf(op) == IF op \in {"createPlannerTask", "sendEmail"} THEN "POST" ELSE "GET"
\* the catch block's return value
EmptyResult(op) ==
  CASE op = "getUserPlans" -> "[]"
    [] op = "sendEmail" -> "false"
    [] OTHER -> "null"
\* What the operation returns for what graphGet / graphPost gave it:
\* getUserPlans returns response.value || [], and only the body of a
\* successful listing has a value; sendEmail returns true; the others
\* return the parsed body as it is.
PublicResult(op, result) ==
  IF result.tag # "success" THEN EmptyResult(op)
  ELSE CASE op = "getUserPlans" -> IF Ok(result.status) THEN "value" ELSE "[]"
         [] op = "sendEmail" -> "true"
         [] OTHER -> "body"

\* ---------------------------------------- GraphClient: updatePlannerTask
\* What the API answers to PATCH /planner/tasks/{id} with an If-Match header.
PatchStatus(exists, fresh) == IF ~exists THEN 404 ELSE IF ~fresh THEN 412 ELSE 204

\* updatePlannerTask(taskId, updates, etag): one PATCH, no retry; every
\* failure is caught and reported as false.
UpdatePlannerTask(exists, fresh, transport) ==
  /\ reqPc = "idle"
  /\ \E tok \in 0..(Len(issued) + 1) :
       /\ GetAccessToken(tok)
       /\ LET status == IF transport THEN NetworkError ELSE PatchStatus(exists, fresh)
              out == IF tok # 0 /\ Ok(status) THEN "true" ELSE "false"
          IN /\ staleOutcome' = IF tok # 0 /\ status = 412
                                  THEN [staleOutcome EXCEPT !["client"] = out]
                                  ELSE staleOutcome
             /\ missingOutcome' = IF tok # 0 /\ status = 404
                                    THEN [missingOutcome EXCEPT !["client"] = out]
                                    ELSE missingOutcome
  /\ UNCHANGED <<now, reqPc, reqMethod, attempt, reqToken, attemptLog, sleeps,
                 lastError, reqResult, outsideGateway>>

\* planner capability, tool update_task: builds the updates and returns a
\* success message; no request is made to the API.
UpdateTaskTool(exists, fresh) ==
  /\ reqPc = "idle"
  /\ staleOutcome' = IF exists /\ ~fresh
                       THEN [staleOutcome EXCEPT !["tool"] = "success"]
                       ELSE staleOutcome
  /\ missingOutcome' = IF ~exists
                         THEN [missingOutcome EXCEPT !["tool"] = "success"]
                         ELSE missingOutcome
  /\ UNCHANGED <<now, accessToken, tokenExpiry, issued, lastGet, reqPc, reqMethod,
                 attempt, reqToken, attemptLog, sleeps, lastError, reqResult, outsideGateway>>

\* Time passing between calls.
Tick(d) ==
  /\ reqPc = "idle"
  /\ InWindow(now + d)
  /\ now' = now + d
  /\ UNCHANGED <<accessToken, tokenExpiry, issued, lastGet, reqPc, reqMethod,
                 attempt, reqToken, attemptLog, sleeps, lastError, reqResult,
                 staleOutcome, missingOutcome, outsideGateway>>

\* ------------------------------ GraphClient: concurrent getAccessToken
\* Callers of the one GraphClient (getGraphClient hands out a singleton) whose
\* getAccessToken calls overlap.  A call runs up to its await, and after the
\* await to its end, without interruption: the event loop runs one
\* continuation at a time.
Callers == {1, 2}
\* tokens the identity provider issues at most
MaxAcquisitions == 3
Idle == [pc |-> "idle", result |-> 0, ret |-> 0]

\* getAccessToken() up to the await: the cache test, then the request to
\* the identity provider.
EnterGetAccessToken(c) ==
  /\ callers[c].pc = "idle"
  /\ callers' = [callers EXCEPT ![c] =
       IF CacheValid THEN [pc |-> "returned", result |-> 0, ret |-> accessToken]
                     ELSE [pc |-> "awaiting", result |-> 0, ret |-> 0]]
  /\ UNCHANGED <<now, accessToken, tokenExpiry, issued, expiryFrom, outsideRefresh>>

\* acquireTokenByClientCredential settles: the provider issues a token (with
\* or without expiresOn), or rejects / answers without accessToken.
AcquireSettles(c, granted) ==
  /\ callers[c].pc = "awaiting"
  /\ IF granted
       THEN /\ Len(issued) < MaxAcquisitions
            /\ \E expiresOn \in {0} \cup {now + l : l \in Lifetimes} :
                 issued' = Append(issued, expiresOn)
            /\ callers' = [callers EXCEPT ![c] =
                 [pc |-> "settled", result |-> Len(issued) + 1, ret |-> 0]]
       ELSE /\ callers' = [callers EXCEPT ![c] = [pc |-> "settled", result |-> 0, ret |-> 0]]
            /\ UNCHANGED issued
  /\ UNCHANGED <<now, accessToken, tokenExpiry, expiryFrom, outsideRefresh>>

\* a continuation that keeps the newest token in the cache but sets the
\* expiry of the acquisition it belongs to
ResumeKeepingNewestToken(c) ==
  /\ callers[c].pc = "settled"
  /\ LET result == callers[c].result
     IN IF result = 0
          THEN /\ callers' = [callers EXCEPT ![c] = [pc |-> "threw", result |-> 0, ret |-> 0]]
               /\ UNCHANGED <<accessToken, tokenExpiry, expiryFrom>>
          ELSE /\ accessToken' = IF accessToken > result THEN accessToken ELSE result
               /\ tokenExpiry' = NewTokenExpiry(issued[result])
               /\ expiryFrom' = result
               /\ callers' = [callers EXCEPT ![c] =
                    [pc |-> "returned", result |-> result, ret |-> accessToken']]
  /\ UNCHANGED <<now, issued, outsideRefresh>>

\* getAccessToken() after the await: a result without accessToken throws
\* (the catch rethrows); otherwise accessToken and tokenExpiry are assigned
\* and this.accessToken is returned.
ResumeGetAccessToken(c) ==
  /\ callers[c].pc = "settled"
  /\ LET result == callers[c].result
     IN IF result = 0
          THEN /\ callers' = [callers EXCEPT ![c] = [pc |-> "threw", result |-> 0, ret |-> 0]]
               /\ UNCHANGED <<accessToken, tokenExpiry, expiryFrom>>
          ELSE /\ accessToken' = result
               /\ tokenExpiry' = NewTokenExpiry(issued[result])
               /\ expiryFrom' = result
               /\ callers' = [callers EXCEPT ![c] =
                    [pc |-> "returned", result |-> result, ret |-> accessToken']]
  /\ UNCHANGED <<now, issued, outsideRefresh>>

\* The caller has its token (or its error) and may call again.
LeaveGetAccessToken(c) ==
  /\ callers[c].pc \in {"returned", "threw"}
  /\ callers' = [callers EXCEPT ![c] = Idle]
  /\ UNCHANGED <<now, accessToken, tokenExpiry, issued, expiryFrom, outsideRefresh>>

\* ------------------------------------------------ ManagerPrompt (router)
\* CAPABILITY_DEFINITIONS, in registration order.
CAPABILITY_DEFINITIONS ==
  <<"summarizer", "action_items", "search", "meeting_manager", "email_sender", "planner">>
CapabilityNames == {CAPABILITY_DEFINITIONS[i] : i \in DOMAIN CAPABILITY_DEFINITIONS}

\* Things that can be thrown: an Error with a message, or a non-Error value.
Thrown == {[isError |-> TRUE, message |-> "oracle unavailable"],
           [isError |-> TRUE, message |-> "storage offline"],
           [isError |-> FALSE, message |-> "a thrown string"]}
NothingThrown == [isError |-> FALSE, message |-> ""]
\* error instanceof Error ? error.message : "Unknown error"
ErrorText(e) == IF e.isError THEN e.message ELSE "Unknown error"
ApologyPrefix == "Sorry, I encountered an error processing your request: "
\* the reply built by the catch block of processRequest
ApologyFor(e) == <<ApologyPrefix, ErrorText(e)>>

\* Text the oracle may return as response.content ("" = empty content).
OracleTexts == {"", "direct answer", "capability result"}
\* a response that passes the oracle's content on as it is
ResponseOfVerbatim(content) == <<content>>

\* response.content || "No response generated"
ResponseOf(content) == IF content = "" THEN <<"No response generated">> ELSE <<content>>

\* A stored record of the conversation: the activity it belongs to and
\* who wrote it (the inbound message of the user, or the bot's reply).
Record(id, role) == [about |-> id, role |-> role]

\* Time phrases the oracle may pass to calculate_time_range, and what
\* extractTimeRange makes of them (Null when the phrase does not parse).
Null == [from |-> -1, to |-> -1]
TimePhrases == {"last week", "yesterday", "no time here"}
extractTimeRange(phrase) ==
  CASE phrase = "last week" -> [from |-> 1, to |-> 8]
    [] phrase = "yesterday" -> [from |-> 7, to |-> 8]
    [] OTHER -> Null
\* the time range a fresh message context carries
ContextDefaultStart == 7
ContextDefaultEnd == 8

\* The functions registered on the prompt, by name: the two that
\* createManagerPrompt chains on the ChatPrompt, then one per capability
\* added by addCapabilities.  A name is <<prefix, capability>>.
delegateTool(name) == <<"delegate_to_", name>>
RegisteredTools ==
  {<<"calculate_time_range", "">>, <<"clear_conversation_history", "">>}
    \cup {delegateTool(CAPABILITY_DEFINITIONS[i]) : i \in DOMAIN CAPABILITY_DEFINITIONS}

\* processRequest ends in its catch block with the thrown value e.
CatchInManager(e) ==
  /\ rPc' = "done"
  /\ rError' = e
  /\ reply' = ApologyFor(e)
  /\ apologies' = apologies \cup {ApologyFor(e)}

\* The handler builds a new ManagerPrompt for the context of the message
\* and calls processRequest.
NewMessage ==
  /\ hPc = "routing"
  /\ rPc = "idle"
  /\ hPc' = "processing"
  /\ rPc' = "start"
  /\ invoked' = <<>>
  /\ timeRangeCalls' = 0
  /\ toolCalls' = 0
  /\ startTime' = ContextDefaultStart
  /\ endTime' = ContextDefaultEnd
  /\ reply' = <<>>
  /\ rError' = NothingThrown
  /\ UNCHANGED <<memory, apologies, activity, loaded, outbox, writes, handled, context,
                 outsideRouter>>

\* processRequest, first statement: await this.initialize().  Building the
\* prompt reads context.memory.values() as the prompt's messages; the read
\* may throw.
Initialize(ok) ==
  /\ rPc = "start"
  /\ IF ok
       THEN /\ rPc' = "selecting"
            /\ loaded' = memory
            /\ UNCHANGED <<reply, rError, apologies>>
       ELSE /\ \E e \in Thrown : CatchInManager(e)
            /\ UNCHANGED loaded
  /\ UNCHANGED <<invoked, timeRangeCalls, toolCalls, startTime, endTime, memory,
                 hPc, activity, outbox, writes, handled, context, outsideRouter>>

\* a calculate_time_range that falls back to the context's first range when
\* the phrase does not parse
CallCalculateTimeRangeDefaulting(time_phrase) ==
  /\ rPc = "selecting"
  /\ <<"calculate_time_range", "">> \in RegisteredTools
  /\ toolCalls < MaxToolCalls
  /\ toolCalls' = toolCalls + 1
  /\ timeRangeCalls' = timeRangeCalls + 1
  /\ LET timeRange == extractTimeRange(time_phrase)
     IN /\ startTime' = IF timeRange # Null THEN timeRange.from ELSE ContextDefaultStart
        /\ endTime' = IF timeRange # Null THEN timeRange.to ELSE ContextDefaultEnd
  /\ UNCHANGED <<rPc, invoked, reply, rError, memory, apologies, handlerVars, outsideRouter>>

\* During prompt.send the oracle calls the tool calculate_time_range.
CallCalculateTimeRange(time_phrase) ==
  /\ rPc = "selecting"
  /\ <<"calculate_time_range", "">> \in RegisteredTools
  /\ toolCalls < MaxToolCalls
  /\ toolCalls' = toolCalls + 1
  /\ timeRangeCalls' = timeRangeCalls + 1
  /\ LET timeRange == extractTimeRange(time_phrase)
     IN /\ startTime' = IF timeRange # Null THEN timeRange.from ELSE endTime
        /\ endTime' = IF timeRange # Null THEN timeRange.to ELSE endTime
  /\ UNCHANGED <<rPc, invoked, reply, rError, memory, apologies, handlerVars, outsideRouter>>

\* a clear tool that swaps the context's memory for a fresh, unbound one
CallClearRebindingMemory ==
  /\ rPc = "selecting"
  /\ toolCalls < MaxToolCalls
  /\ toolCalls' = toolCalls + 1
  /\ memory' = <<>>
  /\ context' = [context EXCEPT !.memory = [conversationId |-> ""]]
  /\ UNCHANGED <<rPc, invoked, timeRangeCalls, startTime, endTime, reply, rError,
                 apologies, hPc, activity, loaded, outbox, writes, handled, outsideRouter>>

\* During prompt.send the oracle calls the tool clear_conversation_history.
CallClearConversationHistory ==
  /\ rPc = "selecting"
  /\ <<"clear_conversation_history", "">> \in RegisteredTools
  /\ toolCalls < MaxToolCalls
  /\ toolCalls' = toolCalls + 1
  /\ memory' = <<>>
  /\ UNCHANGED <<rPc, invoked, timeRangeCalls, startTime, endTime, reply, rError,
                 apologies, handlerVars, outsideRouter>>

\* During prompt.send the oracle calls delegate_to_<name>: the capability's
\* handler runs; it returns its text or throws.
CallDelegate(name, throws) ==
  /\ rPc = "selecting"
  /\ delegateTool(name) \in RegisteredTools
  /\ toolCalls < MaxToolCalls
  /\ toolCalls' = toolCalls + 1
  /\ invoked' = Append(invoked, name)
  /\ IF throws
       THEN \E e \in Thrown : CatchInManager(e)
       ELSE UNCHANGED <<rPc, reply, rError, apologies>>
  /\ UNCHANGED <<timeRangeCalls, startTime, endTime, memory, handlerVars, outsideRouter>>

\* prompt.send returns: the oracle answered with text (possibly empty).
OracleAnswers(content) ==
  /\ rPc = "selecting"
  /\ rPc' = "done"
  /\ reply' = ResponseOf(content)
  /\ UNCHANGED <<invoked, timeRangeCalls, toolCalls, startTime, endTime, rError,
                 memory, apologies, handlerVars, outsideRouter>>

\* prompt.send throws: the call to the oracle failed.
OracleFails(e) ==
  /\ rPc = "selecting"
  /\ CatchInManager(e)
  /\ UNCHANGED <<invoked, timeRangeCalls, toolCalls, startTime, endTime, memory,
                 handlerVars, outsideRouter>>

\* processRequest has returned its ManagerResult to the handler.
ManagerReturns ==
  /\ rPc = "done"
  /\ rPc' = "idle"
  /\ hPc' = "sending"
  /\ UNCHANGED <<invoked, timeRangeCalls, toolCalls, startTime, endTime, reply, rError,
                 memory, apologies, activity, loaded, outbox, writes, handled, context,
                 outsideRouter>>

\* ------------------------------------------------- the "message" handler
\* activities the handler takes at most
MaxMessages == 2

\* activity.text of the inbound messages; "" stands for a missing text too
\* (activity.text || "").
ActivityTexts == {"", "summarize last week"}
\* createMessageContext(storage, activity, api?): the fields the context
\* keeps for the whole pipeline; memory is the ConversationMemory bound to
\* the conversation.  (startTime and endTime are the router's variables;
\* the handler's messages all belong to the conversation "c1".)
createMessageContext(text, conversationId) ==
  [text |-> text, conversationId |-> conversationId, userId |-> "user-1",
   userName |-> "User", memory |-> [conversationId |-> conversationId]]
NoContext == createMessageContext("", "")
\* activity.entities: who the mention entities of the message name
Mentioned == {{}, {"bot"}, {"member"}}
\* activity.entities?.some((e) => e.type === "mention")
botMentionedIn(entities) == entities # {}
NoActivity == [id |-> 0, isGroup |-> FALSE, entities |-> {}, botMentioned |-> FALSE]
\* !activity.conversation.isGroup || botMentioned
Processed(a) == ~a.isGroup \/ a.botMentioned

\* finalizePromptResponse(result.response, context, logger): the message
\* activity that carries the response text.
finalizePromptResponse(text) == [type |-> "message", text |-> text]

\* createMessageRecords([activity, formattedResult]) or
\* createMessageRecords([activity]): one record per activity given.
createMessageRecords(a, replied) ==
  IF replied
    THEN <<Record(a.id, "user"), Record(a.id, "assistant")>>
    ELSE <<Record(a.id, "user")>>

\* a handler that stores the inbound record as soon as the activity arrives
ReceiveMessageStoringFirst(isGroup, entities) ==
  /\ hPc = "idle"
  /\ rPc = "idle"
  /\ handled < MaxMessages
  /\ handled' = handled + 1
  /\ activity' = [id |-> handled + 1, isGroup |-> isGroup, entities |-> entities,
                   botMentioned |-> botMentionedIn(entities)]
  /\ \E text \in ActivityTexts : context' = createMessageContext(text, "c1")
  /\ loaded' = <<>>
  /\ outbox' = <<>>
  /\ writes' = <<>>
  /\ memory' = Append(memory, Record(handled + 1, "user"))
  /\ hPc' = IF ~isGroup \/ botMentionedIn(entities) THEN "routing" ELSE "storing"
  /\ UNCHANGED <<rPc, invoked, timeRangeCalls, toolCalls, startTime, endTime, reply,
                 rError, apologies, outsideRouter>>

\* app.on("message"), up to the first await of the branch taken: the
\* context is created; in a one-to-one chat, or when the bot is mentioned,
\* the typing indicator is sent and the request goes to the manager;
\* otherwise only the inbound activity is tracked.
ReceiveMessage(isGroup, entities) ==
  /\ hPc = "idle"
  /\ rPc = "idle"
  /\ handled < MaxMessages
  /\ handled' = handled + 1
  /\ activity' = [id |-> handled + 1, isGroup |-> isGroup, entities |-> entities,
                   botMentioned |-> botMentionedIn(entities)]
  /\ \E text \in ActivityTexts : context' = createMessageContext(text, "c1")
  /\ loaded' = <<>>
  /\ outbox' = <<>>
  /\ writes' = <<>>
  /\ hPc' = IF ~isGroup \/ botMentionedIn(entities) THEN "routing" ELSE "storing"
  /\ UNCHANGED <<routerVars, outsideRouter>>

\* const sent = await send(formattedResult): the reply goes out.
SendReply ==
  /\ hPc = "sending"
  /\ outbox' = Append(outbox, finalizePromptResponse(reply))
  /\ hPc' = "storing"
  /\ UNCHANGED <<activity, loaded, writes, handled, context, routerVars, outsideRouter>>

\* await context.memory.addMessages(trackedMessages): the end of the handler.
StoreMessages ==
  /\ hPc = "storing"
  /\ LET trackedMessages == createMessageRecords(activity, Processed(activity))
     IN /\ memory' = memory \o trackedMessages
        /\ writes' = Append(writes, trackedMessages)
  /\ hPc' = "idle"
  /\ UNCHANGED <<activity, loaded, outbox, handled, context, rPc, invoked, timeRangeCalls,
                 toolCalls, startTime, endTime, reply, rError, apologies, outsideRouter>>


\* ------------------------------------ planner: bulk_create_tasks
\* tasks one call is given at most
MaxTasks == 3
\* taskData.due_date: left out (""), a date, or a text that is no date
DueDates == {"", "2026-01-15", "end of sprint"}
\* new Date(due_date).toISOString() returns; for a text that is no date it
\* throws a RangeError
IsDate(due_date) == due_date = "2026-01-15"
\* the task lists of args.tasks; a task's title is its place in the list
TaskLists == UNION {[1..n -> DueDates] : n \in 0..MaxTasks}
\* what graphClient.createPlannerTask(task) resolves with: the created
\* task, null, or the body of an error answer that graphPost passed on
CreateOutcomes == {"task", "null", "errorBody"}
\* results / failures hold the titles pushed; calls[i] counts the
\* createPlannerTask calls made for task i; returned is the JSON answer.
NoBulk == [pc |-> "idle", tasks |-> <<>>, next |-> 1, results |-> <<>>, failures |-> <<>>,
           calls |-> <<>>, returned |-> [success |-> FALSE, created |-> <<>>, failed |-> <<>>]]

\* the tool is invoked: const results = []; const failures = [];
BulkCreateTasks(tasks) ==
  /\ bulk.pc = "idle"
  /\ bulk' = [NoBulk EXCEPT !.pc = "looping", !.tasks = tasks,
                            !.calls = [i \in DOMAIN tasks |-> 0]]
  /\ UNCHANGED outsideBulk

\* a loop that gives up at the first task that fails
CreateTaskStoppingAtFailure(outcome) ==
  /\ bulk.pc = "looping"
  /\ bulk.next <= Len(bulk.tasks)
  /\ LET i == bulk.next
         due == bulk.tasks[i]
     IN bulk' =
          IF due # "" /\ ~IsDate(due)
            THEN [bulk EXCEPT !.next = Len(bulk.tasks) + 1, !.failures = Append(@, i)]
            ELSE IF outcome = "null"
              THEN [bulk EXCEPT !.next = Len(bulk.tasks) + 1, !.calls[i] = @ + 1,
                                !.failures = Append(@, i)]
              ELSE [bulk EXCEPT !.next = i + 1, !.calls[i] = @ + 1,
                                !.results = Append(@, i)]
  /\ UNCHANGED outsideBulk

\* One iteration of for (const taskData of args.tasks): the task is built
\* (a due_date that is no date throws to the iteration's catch, which
\* records the failure), createPlannerTask is called, and the task goes to
\* results when the call gave something truthy, to failures otherwise.
CreateTask(outcome) ==
  /\ bulk.pc = "looping"
  /\ bulk.next <= Len(bulk.tasks)
  /\ LET i == bulk.next
         due == bulk.tasks[i]
     IN bulk' =
          IF due # "" /\ ~IsDate(due)
            THEN [bulk EXCEPT !.next = i + 1, !.failures = Append(@, i)]
            ELSE IF outcome = "null"
              THEN [bulk EXCEPT !.next = i + 1, !.calls[i] = @ + 1,
                                !.failures = Append(@, i)]
              ELSE [bulk EXCEPT !.next = i + 1, !.calls[i] = @ + 1,
                                !.results = Append(@, i)]
  /\ UNCHANGED outsideBulk

\* after the loop: return JSON.stringify({ success: failures.length === 0,
\* created: results, failed: failures, ... })
BulkCreateTasksReturns ==
  /\ bulk.pc = "looping"
  /\ bulk.next > Len(bulk.tasks)
  /\ bulk' = [bulk EXCEPT !.pc = "returned",
                          !.returned = [success |-> Len(bulk.failures) = 0,
                                        created |-> bulk.results,
                                        failed |-> bulk.failures]]
  /\ UNCHANGED outsideBulk

\* the answer went back to the oracle; the tool may be invoked again
BulkDone ==
  /\ bulk.pc = "returned"
  /\ bulk' = NoBulk
  /\ UNCHANGED outsideBulk

\* ------------------------------- "message" handlers side by side
\* Each activity the app receives starts its own run of the "message"
\* handler; the runs of one conversation share its stored records and
\* interleave at their awaits.
MaxPipelines == 2
Pipelines == 1..MaxPipelines
\* One run: where it stands, the activity it handles (its id is the run's
\* number), and history: whether clear_conversation_history was invoked,
\* whether the manager answered with its apology, how many times the
\* inbound record was stored.
NoPipeline == [pc |-> "idle", activity |-> NoActivity, cleared |-> FALSE,
               apology |-> FALSE, recorded |-> 0]
Ended == {"completed", "failed"}

\* the handler up to its first await: the context is made, and the branch
\* is chosen
MessageArrives(h, isGroup, entities) ==
  /\ pipelines[h].pc = "idle"
  /\ LET a == [id |-> h, isGroup |-> isGroup, entities |-> entities,
               botMentioned |-> botMentionedIn(entities)]
     IN pipelines' = [pipelines EXCEPT ![h].activity = a,
                        ![h].pc = IF Processed(a) THEN "typing" ELSE "storing"]
  /\ UNCHANGED <<conversation, outsidePipelines>>

\* await send({ type: "typing" }); a send that throws ends the handler
SendTyping(h, ok) ==
  /\ pipelines[h].pc = "typing"
  /\ pipelines' = [pipelines EXCEPT ![h].pc = IF ok THEN "processing" ELSE "failed"]
  /\ UNCHANGED <<conversation, outsidePipelines>>

\* manager.processRequest(), the tool clear_conversation_history:
\* await this.context.memory.clear()
ClearConversationHistory(h) ==
  /\ pipelines[h].pc = "processing"
  /\ ~pipelines[h].cleared
  /\ conversation' = <<>>
  /\ pipelines' = [pipelines EXCEPT ![h].cleared = TRUE]
  /\ UNCHANGED outsidePipelines

\* manager.processRequest() returns: the response, or the apology of its
\* catch block
ProcessRequestReturns(h, apology) ==
  /\ pipelines[h].pc = "processing"
  /\ pipelines' = [pipelines EXCEPT ![h].pc = "sending", ![h].apology = apology]
  /\ UNCHANGED <<conversation, outsidePipelines>>

\* const sent = await send(formattedResult); a send that throws ends the
\* handler
SendFormattedResult(h, ok) ==
  /\ pipelines[h].pc = "sending"
  /\ pipelines' = [pipelines EXCEPT ![h].pc = IF ok THEN "storing" ELSE "failed"]
  /\ UNCHANGED <<conversation, outsidePipelines>>

\* await context.memory.addMessages(trackedMessages)
AddTrackedMessages(h) ==
  /\ pipelines[h].pc = "storing"
  /\ LET a == pipelines[h].activity
     IN conversation' = conversation \o createMessageRecords(a, Processed(a))
  /\ pipelines' = [pipelines EXCEPT ![h].pc = "completed",
                                    ![h].recorded = pipelines[h].recorded + 1]
  /\ UNCHANGED outsidePipelines

\* ------------------------------------------------------------- storage
\* Texts are sequences of characters, so that LIKE and toLowerCase can be
\* computed on them.
UpperCaseLetters == <<"A", "B", "C", "D", "E", "G", "H", "L", "N", "O", "T", "U">>
LowerCaseLetters == <<"a", "b", "c", "d", "e", "g", "h", "l", "n", "o", "t", "u">>
\* String.prototype.toLowerCase, one character
toLowerCaseChar(c) ==
  IF \E i \in DOMAIN UpperCaseLetters : UpperCaseLetters[i] = c
    THEN LowerCaseLetters[CHOOSE i \in DOMAIN UpperCaseLetters : UpperCaseLetters[i] = c]
    ELSE c
\* String.prototype.toLowerCase
toLowerCase(txt) == [i \in DOMAIN txt |-> toLowerCaseChar(txt[i])]

\* SQL: txt LIKE pat, with the wildcards % (any run of characters) and
\* _ (any one character); letters compare without regard to case.
RECURSIVE Like(_, _)
Like(pat, txt) ==
  IF pat = <<>> THEN txt = <<>>
  ELSE IF Head(pat) = "%"
    THEN Like(Tail(pat), txt) \/ (txt # <<>> /\ Like(pat, Tail(txt)))
    ELSE /\ txt # <<>>
         /\ (Head(pat) = "_" \/ toLowerCaseChar(Head(pat)) = toLowerCaseChar(Head(txt)))
         /\ Like(Tail(pat), Tail(txt))

\* `%${k.toLowerCase()}%`
LikePattern(k) == <<"%">> \o toLowerCase(k) \o <<"%">>

\* The stored conversations and the messages that may be appended.  A
\* timestamp is the rank of the record's timestamp text in the order the
\* database compares it.
Conversations == {"c1", "c2"}
MessageRecords ==
  {[activity_id |-> 1, conversation_id |-> "c1", timestamp |-> 1,
    content |-> <<"B", "u", "d", "g", "e", "t">>, name |-> <<"A", "n", "n">>],
   [activity_id |-> 2, conversation_id |-> "c1", timestamp |-> 2,
    content |-> <<"l", "u", "n", "c", "h">>, name |-> <<"B", "o", "b">>],
   [activity_id |-> 3, conversation_id |-> "c1", timestamp |-> 3,
    content |-> <<"b", "u", "d", "g", "e", "t">>, name |-> <<"B", "o", "b">>],
   [activity_id |-> 4, conversation_id |-> "c1", timestamp |-> 2,
    content |-> <<"B", "U", "D", "G", "E", "T">>, name |-> <<"a", "n", "n">>],
   [activity_id |-> 5, conversation_id |-> "c2", timestamp |-> 2,
    content |-> <<"B", "u", "d", "g", "e", "t">>, name |-> <<"A", "n", "n">>]}
\* rows the table may hold at most
MaxRows == 3

\* Arguments of the reads.
TimeRanges == {<<1, 3>>, <<2, 2>>, <<2, 3>>}
SearchRanges == {<<1, 3>>, <<2, 3>>}
KeywordLists == {<<>>,
                 << <<"b", "u", "d", "g", "e", "t">> >>,
                 << <<"l", "_", "n", "c", "h">> >>,
                 << <<"t", "e", "a">>, <<"L", "U", "N", "C", "H">> >>}
\* participants?: string[] -- left out, or a list
NotGiven == [given |-> FALSE, list |-> <<>>]
ParticipantLists == {NotGiven,
                     [given |-> TRUE, list |-> <<>>],
                     [given |-> TRUE, list |-> << <<"A", "N", "N">> >>]}
\* an optional numeric argument that was left out
Omitted == -1
Limits == {Omitted, 0, 1, 2}
MaxResultsArgs == {Omitted, 0, 1}

NoStorage == [kind |-> "none", initialized |-> FALSE]
NoCreate == [type |-> "none", mssqlOk |-> FALSE, sqliteTried |-> FALSE,
             sqliteOk |-> FALSE, thrown |-> FALSE]
NoRead == [op |-> "none", conv |-> "", a |-> 0, b |-> 0, keywords |-> <<>>,
           participants |-> NotGiven, limit |-> Omitted, result |-> <<>>,
           count |-> 0, thrown |-> FALSE]

\* a factory that hands back the MSSQL store whether or not it initialised
createStorageNoFallback(type, mssqlInit, sqliteInit) ==
  IF type = "mssql"
    THEN [store |-> [kind |-> "mssql", initialized |-> mssqlInit], thrown |-> FALSE]
    ELSE IF sqliteInit
      THEN [store |-> [kind |-> "sqlite", initialized |-> TRUE], thrown |-> FALSE]
      ELSE [store |-> NoStorage, thrown |-> TRUE]

\* StorageFactory.createStorage: the MSSQL store when the type is mssql and
\* its initialize() resolves; otherwise (type sqlite, or initialize() threw
\* and the error was swallowed) the SQLite store once its initialize()
\* resolves; the SQLite error is not caught.
createStorage(type, mssqlInit, sqliteInit) ==
  IF type = "mssql" /\ mssqlInit
    THEN [store |-> [kind |-> "mssql", initialized |-> TRUE], thrown |-> FALSE]
    ELSE IF sqliteInit
      THEN [store |-> [kind |-> "sqlite", initialized |-> TRUE], thrown |-> FALSE]
      ELSE [store |-> NoStorage, thrown |-> TRUE]

\* the record kept of a createStorage call
CreateRecord(type, mssqlInit, sqliteInit) ==
  [type |-> type,
   mssqlOk |-> type = "mssql" /\ mssqlInit,
   sqliteTried |-> ~(type = "mssql" /\ mssqlInit),
   sqliteOk |-> ~(type = "mssql" /\ mssqlInit) /\ sqliteInit,
   thrown |-> createStorage(type, mssqlInit, sqliteInit).thrown]

\* A direct call of StorageFactory.createStorage(logger, config).
CreateStorage(type, mssqlInit, sqliteInit) ==
  /\ storage = NoStorage
  /\ bPc = "undeployed"
  /\ storage' = createStorage(type, mssqlInit, sqliteInit).store
  /\ lastCreate' = CreateRecord(type, mssqlInit, sqliteInit)
  /\ UNCHANGED <<rows, cleared, sPc, lastRead, outsideStorage>>

\* The rows of a table as a set.
RowSet(t) == {t[i] : i \in DOMAIN t}
\* all arrangements of the records of S in a sequence
Arrangements(S) ==
  {q \in [1..Cardinality(S) -> S] : \A i, j \in 1..Cardinality(S) : i # j => q[i] # q[j]}

\* a time test that leaves the two bounds out
InTimeRangeExclusive(r, a, b) == r.timestamp > a /\ r.timestamp < b

\* timestamp >= ? AND timestamp <= ?
InTimeRange(r, a, b) == r.timestamp >= a /\ r.timestamp <= b

\* a result set delivered in no particular order
Unordered(S) == Arrangements(S)

\* ORDER BY timestamp ASC: the order of rows with equal timestamps is the
\* database's choice.
OrderByTimestampAsc(S) ==
  {q \in Arrangements(S) : \A i, j \in DOMAIN q : i < j => q[i].timestamp <= q[j].timestamp}
\* ORDER BY timestamp DESC
OrderByTimestampDesc(S) ==
  {q \in Arrangements(S) : \A i, j \in DOMAIN q : i < j => q[i].timestamp >= q[j].timestamp}

\* Array.prototype.slice(start): a negative start counts from the end, and
\* -0 is 0.
slice(q, start) ==
  LET from == IF start < 0 THEN (IF Len(q) + start > 0 THEN Len(q) + start ELSE 0)
              ELSE (IF start < Len(q) THEN start ELSE Len(q))
  IN SubSeq(q, from + 1, Len(q))
\* LIMIT n / TOP (n)
Limit(q, n) == SubSeq(q, 1, IF n < Len(q) THEN n ELSE Len(q))

\* WHERE conversation_id = ?
OfConversation(t, conv) == {r \in RowSet(t) : r.conversation_id = conv}

\* get(conversationId): the possible results
get(t, conv) == OrderByTimestampAsc(OfConversation(t, conv))
\* getMessagesByTimeRange(conversationId, startTime, endTime)
getMessagesByTimeRange(t, conv, a, b) ==
  OrderByTimestampAsc({r \in OfConversation(t, conv) : InTimeRange(r, a, b)})
\* getRecentMessages(conversationId, limit = 10): messages.slice(-limit)
getRecentMessages(t, conv, limit) ==
  {slice(q, -(IF limit = Omitted THEN 10 ELSE limit)) : q \in get(t, conv)}
\* countMessages(conversationId)
countMessages(t, conv) == Cardinality({i \in DOMAIN t : t[i].conversation_id = conv})
\* DELETE FROM conversations WHERE conversation_id = ?
clearConversation(t, conv) == SelectSeq(t, LAMBDA r : r.conversation_id # conv)

\* (content LIKE ? OR ...)
KeywordClause(r, keywords) ==
  \E i \in DOMAIN keywords : Like(LikePattern(keywords[i]), r.content)
\* (name LIKE ? OR ...)
ParticipantClause(r, list) ==
  \E i \in DOMAIN list : Like(LikePattern(list[i]), r.name)

\* SqlJsKVStore.getFilteredMessages.  The keyword clause is always put in
\* the query, so an empty keyword list makes the statement "... AND ()",
\* which does not prepare: the call throws.
sqliteFilterThrows(keywords) == keywords = <<>>
\* maxResults && typeof maxResults === "number" ? maxResults : 5
sqliteLimit(maxResults) ==
  IF maxResults # Omitted /\ maxResults # 0 THEN maxResults ELSE 5
sqliteFiltered(t, conv, keywords, a, b, participants, maxResults) ==
  LET hits == {r \in OfConversation(t, conv) :
                 /\ InTimeRange(r, a, b)
                 /\ KeywordClause(r, keywords)
                 /\ (participants.given /\ participants.list # <<>>)
                      => ParticipantClause(r, participants.list)}
  IN {Limit(q, sqliteLimit(maxResults)) : q \in OrderByTimestampDesc(hits)}

\* MssqlKVStore.getFilteredMessages(..., participants?, maxResults = 5): the
\* keyword clause is added only for a non-empty list.
mssqlLimit(maxResults) == IF maxResults = Omitted THEN 5 ELSE maxResults
mssqlFiltered(t, conv, keywords, a, b, participants, maxResults) ==
  LET hits == {r \in OfConversation(t, conv) :
                 /\ InTimeRange(r, a, b)
                 /\ keywords # <<>> => KeywordClause(r, keywords)
                 /\ (participants.given /\ participants.list # <<>>)
                      => ParticipantClause(r, participants.list)}
  IN {Limit(q, mssqlLimit(maxResults)) : q \in OrderByTimestampDesc(hits)}

\* A store is open and no read is waiting to be taken.
StoreReady == storage.kind # "none" /\ storage.initialized /\ sPc = "idle"

\* The batches the handler passes: records of activities not stored yet,
\* or the record stored last once more (activity 1, delivered again).
FreshOrRedelivered(batch) ==
  \/ \A i \in DOMAIN batch : batch[i] \notin RowSet(rows)
  \/ /\ Len(batch) = 1 /\ rows # <<>>
     /\ batch[1] = rows[Len(rows)] /\ batch[1].activity_id = 1

\* ConversationMemory.addMessages(messages): the records are inserted in
\* order by one call (a synchronous loop, or one transaction); nothing
\* compares them with the rows already stored.
AddMessages(batch) ==
  /\ StoreReady
  /\ Len(rows) + Len(batch) <= MaxRows
  /\ rows' = rows \o batch
  /\ cleared' = [c \in Conversations |->
                   IF \E i \in DOMAIN batch : batch[i].conversation_id = c
                     THEN -1 ELSE cleared[c]]
  /\ UNCHANGED <<storage, lastCreate, sPc, lastRead, outsideStorage>>

\* ConversationMemory.addMessages(messages) when the insert of messages[k]
\* fails (a value that does not bind, a NOT NULL column, a lost connection)
\* and addMessages throws.  SqlJsKVStore has inserted messages[1..k-1], one
\* statement each, and leaves them; MssqlKVStore rolls its transaction back.
AddMessagesFails(batch, k) ==
  /\ StoreReady
  /\ Len(rows) + Len(batch) <= MaxRows
  /\ k \in DOMAIN batch
  /\ LET inserted == IF storage.kind = "sqlite" THEN SubSeq(batch, 1, k - 1) ELSE <<>>
     IN /\ rows' = rows \o inserted
        /\ cleared' = [c \in Conversations |->
                         IF \E i \in DOMAIN inserted : inserted[i].conversation_id = c
                           THEN -1 ELSE cleared[c]]
  /\ UNCHANGED <<storage, lastCreate, sPc, lastRead, outsideStorage>>

\* ConversationMemory.clear()
Clear(conv) ==
  /\ StoreReady
  /\ rows' = clearConversation(rows, conv)
  /\ cleared' = [cleared EXCEPT ![conv] = countMessages(rows, conv)]
  /\ UNCHANGED <<storage, lastCreate, sPc, lastRead, outsideStorage>>

\* a read returns: what is kept of it
Returned(read) ==
  /\ sPc' = "returned"
  /\ lastRead' = read
  /\ UNCHANGED <<storage, lastCreate, rows, cleared, outsideStorage>>

\* ConversationMemory.values()
Values(conv) ==
  /\ StoreReady
  /\ \E q \in get(rows, conv) :
       Returned([NoRead EXCEPT !.op = "values", !.conv = conv, !.result = q])

\* ConversationMemory.getMessagesByTimeRange(startTime, endTime)
GetMessagesByTimeRange(conv, a, b) ==
  /\ StoreReady
  /\ \E q \in getMessagesByTimeRange(rows, conv, a, b) :
       Returned([NoRead EXCEPT !.op = "getMessagesByTimeRange", !.conv = conv,
                               !.a = a, !.b = b, !.result = q])

\* ConversationMemory.getRecentMessages(limit)
GetRecentMessages(conv, limit) ==
  /\ StoreReady
  /\ \E q \in getRecentMessages(rows, conv, limit) :
       Returned([NoRead EXCEPT !.op = "getRecentMessages", !.conv = conv,
                               !.limit = limit, !.result = q])

\* ConversationMemory.length()
Length(conv) ==
  /\ StoreReady
  /\ Returned([NoRead EXCEPT !.op = "length", !.conv = conv,
                             !.count = countMessages(rows, conv)])

\* ConversationMemory.getFilteredMessages(conversationId, keywords,
\* startTime, endTime, participants, maxResults), on the store in use.
GetFilteredMessages(conv, keywords, a, b, participants, maxResults) ==
  /\ StoreReady
  /\ LET read == [NoRead EXCEPT !.op = "getFilteredMessages", !.conv = conv,
                                !.a = a, !.b = b, !.keywords = keywords,
                                !.participants = participants, !.limit = maxResults]
     IN IF storage.kind = "sqlite"
          THEN IF sqliteFilterThrows(keywords)
                 THEN Returned([read EXCEPT !.thrown = TRUE])
                 ELSE \E q \in sqliteFiltered(rows, conv, keywords, a, b,
                                              participants, maxResults) :
                        Returned([read EXCEPT !.result = q])
          ELSE \E q \in mssqlFiltered(rows, conv, keywords, a, b,
                                      participants, maxResults) :
                 Returned([read EXCEPT !.result = q])

\* The caller has taken the result of the read.
TakeResult ==
  /\ sPc = "returned"
  /\ sPc' = "idle"
  /\ lastRead' = NoRead
  /\ UNCHANGED <<storage, lastCreate, rows, cleared, outsideStorage>>

\* ------------------------------------------------------------- startup
\* The settings read from process.env.
Settings == {"AZURE_OPENAI_KEY", "AZURE_OPENAI_ENDPOINT", "RUNNING_ON_AZURE",
             "SQL_CONNECTION_STRING", "AAD_APP_CLIENT_ID",
             "SECRET_AAD_APP_CLIENT_SECRET", "AAD_APP_TENANT_ID"}
\* validateEnvironment: requiredEnvVars
requiredEnvVars == <<"AZURE_OPENAI_KEY", "AZURE_OPENAI_ENDPOINT">>
\* getGraphClient: the settings it reports as "Required environment
\* variables not set", in the order it tests them
graphRequiredVars == <<"AAD_APP_CLIENT_ID", "SECRET_AAD_APP_CLIENT_SECRET", "AAD_APP_TENANT_ID">>
\* requiredEnvVars.filter((envVar) => !process.env[envVar])
Missing(required, e) == SelectSeq(required, LAMBDA v : v \notin e)
\* activities the app dispatches at most
MaxDelivered == 2

NotBuilt == [built |-> FALSE, missing |-> <<>>]

\* The process is launched with an environment; config.ts is loaded and
\* DATABASE_CONFIG.type is RUNNING_ON_AZURE === "1" ? "mssql" : "sqlite".
Deploy(e) ==
  /\ bPc = "undeployed"
  /\ storage = NoStorage
  /\ bPc' = "boot"
  /\ env' = e
  /\ dbType' = IF "RUNNING_ON_AZURE" \in e THEN "mssql" ELSE "sqlite"
  /\ UNCHANGED <<reported, appStarted, delivered, graphMissing, storageVars, outsideBoot>>

\* The startup function: validateEnvironment, StorageFactory.createStorage,
\* then app.start(port); any error before app.start ends in process.exit(1).
Startup(mssqlInit, sqliteInit) ==
  /\ bPc = "boot"
  /\ LET missing == Missing(requiredEnvVars, env)
         type == IF dbType = "mssql" /\ "SQL_CONNECTION_STRING" \notin env
                   THEN "sqlite" ELSE dbType
         made == createStorage(type, mssqlInit, sqliteInit)
     IN IF missing # <<>>
          THEN /\ bPc' = "exited"
               /\ reported' = missing
               /\ UNCHANGED <<dbType, storage, lastCreate, appStarted>>
          ELSE /\ dbType' = type
               /\ lastCreate' = CreateRecord(type, mssqlInit, sqliteInit)
               /\ storage' = made.store
               /\ UNCHANGED reported
               /\ IF made.thrown
                    THEN bPc' = "exited" /\ UNCHANGED appStarted
                    ELSE bPc' = "running" /\ appStarted' = TRUE
  /\ UNCHANGED <<env, delivered, graphMissing, rows, cleared, sPc, lastRead, outsideBoot>>

\* The running app dispatches an inbound activity to its "message" handler.
Dispatch ==
  /\ bPc = "running"
  /\ appStarted
  /\ delivered < MaxDelivered
  /\ delivered' = delivered + 1
  /\ UNCHANGED <<env, bPc, dbType, reported, appStarted, graphMissing, storageVars, outsideBoot>>

\* getGraphClient(logger), first call: the missing Graph settings are
\* logged as an error and the client is built all the same.
GetGraphClient ==
  /\ bPc = "running"
  /\ ~graphMissing.built
  /\ graphMissing' = [built |-> TRUE, missing |-> Missing(graphRequiredVars, env)]
  /\ UNCHANGED <<env, bPc, dbType, reported, appStarted, delivered, storageVars, outsideBoot>>

\* ------------------------------------------------- life of a store
\* rows a store may hold at most
MaxStored == 2
\* One SqlJsKVStore or MssqlKVStore object.  handle is this.db / this.pool:
\* "null", "open", or "unconnected" (a pool that was made but did not
\* connect); rows counts the rows of the open database (the in-memory
\* database of sql.js, the server's table of MSSQL); file counts the rows
\* of the saved database file, -1 while there is none.  called, closed and
\* reopened are history: initialize() was called; close() was called and
\* initialize() not since; the store was initialised again after a close.
NoStore == [kind |-> "none", handle |-> "null", isInitialized |-> FALSE, rows |-> 0,
            file |-> -1, called |-> FALSE, closed |-> FALSE, reopened |-> FALSE]
NoOp == [op |-> "none", phase |-> "new", threw |-> FALSE, same |-> TRUE]
DataOps == {"addMessages", "get", "clearConversation"}
\* where the store is in its life
Phase(st) ==
  CASE st.closed -> "closed"
    [] ~st.called -> "new"
    [] st.handle = "open" -> "open"
    [] OTHER -> "failed"
\* the program's fields of the store are as they were
SameStore(a, b) ==
  /\ a.kind = b.kind /\ a.handle = b.handle /\ a.isInitialized = b.isInitialized
  /\ a.rows = b.rows /\ a.file = b.file
\* saveToFile(): the open database is written to the file; a failure is
\* logged and swallowed.
saveToFile(st, saved) == IF saved THEN [st EXCEPT !.file = st.rows] ELSE st

\* new SqlJsKVStore(logger) / new MssqlKVStore(logger, config)
NewStore(kind) ==
  /\ store.kind = "none"
  /\ store' = [NoStore EXCEPT !.kind = kind]
  /\ UNCHANGED <<lastOp, outsideLifecycle>>

\* initialize().  SqlJsKVStore: initSqlJs (ok), then the file is loaded if
\* there is one (a file that does not load gives a new database), the
\* tables are created and the database saved.  MssqlKVStore: nothing when
\* isInitialized; otherwise a pool is made and connected (ok).
InitializeStore(ok, fileLoads, saved) ==
  /\ store.kind # "none"
  /\ LET st == [store EXCEPT !.called = TRUE, !.closed = FALSE]
         again == [st EXCEPT !.reopened = store.closed]
     IN store' =
          IF store.kind = "sqlite"
            THEN IF ok
                   THEN saveToFile([again EXCEPT !.handle = "open",
                                      !.rows = IF store.file >= 0 /\ fileLoads
                                                 THEN store.file ELSE 0], saved)
                   ELSE st
            ELSE IF store.isInitialized THEN st
                 ELSE IF ok THEN [again EXCEPT !.handle = "open", !.isInitialized = TRUE]
                            ELSE [st EXCEPT !.handle = "unconnected"]
  /\ lastOp' = [op |-> "initialize", phase |-> Phase(store),
                threw |-> ~ok /\ ~store.isInitialized, same |-> SameStore(store, store')]
  /\ UNCHANGED outsideLifecycle

\* addMessages (one record), get, clearConversation.  With a null handle
\* each throws at once.  On an unconnected pool the query fails: addMessages
\* and clearConversation rethrow, get answers [].
DataOp(op, saved) ==
  /\ store.kind # "none"
  /\ op = "addMessages" => store.rows < MaxStored
  /\ store' =
       IF store.handle # "open" \/ op = "get" THEN store
       ELSE LET kept == IF op = "addMessages" THEN store.rows + 1 ELSE 0
            IN IF store.kind = "sqlite"
                 THEN saveToFile([store EXCEPT !.rows = kept], saved)
                 ELSE [store EXCEPT !.rows = kept]
  /\ lastOp' = [op |-> op, phase |-> Phase(store),
                threw |-> \/ store.handle = "null"
                          \/ store.handle = "unconnected" /\ op # "get",
                same |-> SameStore(store, store')]
  /\ UNCHANGED outsideLifecycle

\* a close() that leaves the handle in place
CloseStoreKeepingHandle(saved) ==
  /\ store.kind # "none"
  /\ store' = [(IF store.kind = "sqlite" /\ store.handle # "null"
                  THEN saveToFile(store, saved) ELSE store) EXCEPT !.closed = TRUE]
  /\ lastOp' = [op |-> "close", phase |-> Phase(store), threw |-> FALSE,
                same |-> SameStore(store, store')]
  /\ UNCHANGED outsideLifecycle

\* close(): nothing when the handle is null.  SqlJsKVStore saves the
\* database and drops it; MssqlKVStore closes the pool and resets
\* isInitialized.
CloseStore(saved) ==
  /\ store.kind # "none"
  /\ store' =
       IF store.handle = "null" THEN [store EXCEPT !.closed = TRUE]
       ELSE IF store.kind = "sqlite"
         THEN [saveToFile(store, saved) EXCEPT !.handle = "null", !.rows = 0,
                                               !.closed = TRUE]
         ELSE [store EXCEPT !.handle = "null", !.isInitialized = FALSE, !.closed = TRUE]
  /\ lastOp' = [op |-> "close", phase |-> Phase(store), threw |-> FALSE,
                same |-> SameStore(store, store')]
  /\ UNCHANGED outsideLifecycle

\* ------------------------------------------- GraphClient: transcripts
\* A line of a VTT file, by what parseVttTranscript tells apart: the WEBVTT
\* header, an empty line, a line of digits (cue number), a timing line
\* "start --> end", a voice line "<v Speaker>text</v>", any other text.
VttLine(kind, stamp, speaker, text) ==
  [kind |-> kind, stamp |-> stamp, speaker |-> speaker, text |-> text]
\* cues a transcript may hold at most
MaxCues == 3
\* A cue: who speaks, the text of the voice line, and whether a second
\* line of text follows.  The cue at position i starts at time 5 * i.
Cues == [speaker : {"Ann", "Bob"}, text : {"hello", "budget"}, more : BOOLEAN]
StartOf(i) == 5 * i
\* the text of a cue, as the pieces that are joined with " "
TextOf(cue) == IF cue.more THEN <<cue.text, "and more">> ELSE <<cue.text>>
\* the lines of the cue at position i
CueLines(cue, i) ==
  <<VttLine("empty", 0, "", ""), VttLine("digits", 0, "", ""),
    VttLine("timing", StartOf(i), "", ""), VttLine("voice", 0, cue.speaker, cue.text)>>
    \o (IF cue.more THEN <<VttLine("text", 0, "", "and more")>> ELSE <<>>)
\* the VTT file of a sequence of cues
RECURSIVE VttContent(_)
VttContent(cues) ==
  IF cues = <<>> THEN <<VttLine("WEBVTT", 0, "", "")>>
  ELSE VttContent(SubSeq(cues, 1, Len(cues) - 1)) \o CueLines(cues[Len(cues)], Len(cues))

\* transcriptEntries.push({ speakerName, text, timestamp }) when
\* currentText && currentSpeaker
PushEntry(st) ==
  IF st.currentText # <<>> /\ st.currentSpeaker # ""
    THEN Append(st.entries, [speakerName |-> st.currentSpeaker, text |-> st.currentText,
                             timestamp |-> st.currentTimestamp])
    ELSE st.entries
\* one turn of the loop of parseVttTranscript
ParseLine(st, line) ==
  CASE line.kind \in {"WEBVTT", "empty"} -> st
    [] line.kind = "timing" -> [st EXCEPT !.currentTimestamp = line.stamp]
    [] line.kind = "voice" ->
         [st EXCEPT !.entries = PushEntry(st), !.currentSpeaker = line.speaker,
                    !.currentText = <<line.text>>]
    [] line.kind = "digits" -> st
    [] OTHER -> [st EXCEPT !.currentText = st.currentText \o <<line.text>>]
RECURSIVE ParseLines(_, _)
ParseLines(st, lines) ==
  IF lines = <<>> THEN st ELSE ParseLines(ParseLine(st, Head(lines)), Tail(lines))
\* GraphClient.parseVttTranscript(vttContent)
parseVttTranscript(lines) ==
  PushEntry(ParseLines([currentSpeaker |-> "", currentText |-> <<>>, currentTimestamp |-> 0,
                        entries |-> <<>>], lines))

NoTranscript == [parsed |-> FALSE, cues |-> <<>>, entries |-> <<>>]
\* A transcript is fetched and parsed.
ParseTranscript(cues) ==
  /\ transcript' = [parsed |-> TRUE, cues |-> cues,
                    entries |-> parseVttTranscript(VttContent(cues))]
  /\ UNCHANGED outsideTranscript

\* ---------------------------------------------------------- feedback
\* Reactions a feedback activity may carry, as sequences of characters.
Reactions == {<<"l", "i", "k", "e">>, <<"d", "i", "s", "l", "i", "k", "e">>,
              <<"l", "o", "v", "e">>, <<"l", "i", "k", "e", " ">>}
\* activity.replyToId, "" when the activity has none
ReplyToIds == {"", "reply-1"}
\* rows the feedback table may hold at most
MaxFeedback == 3
NoFeedback == [replyToId |-> "", reaction |-> <<>>, reached |-> FALSE, success |-> FALSE,
               before |-> <<>>]

\* a text without its trailing spaces
RECURSIVE TrimTrailingSpaces(_)
TrimTrailingSpaces(txt) ==
  IF txt # <<>> /\ txt[Len(txt)] = " "
    THEN TrimTrailingSpaces(SubSeq(txt, 1, Len(txt) - 1))
    ELSE txt
\* CHECK (reaction IN ('like','dislike')) as the database of the store
\* evaluates it: SQLite compares the texts as they are; SQL Server compares
\* them padded with spaces to equal length.
ReactionCheck(kind, reaction) ==
  LET compared == IF kind = "sqlite" THEN reaction ELSE TrimTrailingSpaces(reaction)
  IN compared \in {<<"l", "i", "k", "e">>, <<"d", "i", "s", "l", "i", "k", "e">>}

\* app.on("message.submit.feedback"): without replyToId the handler returns;
\* otherwise recordFeedback inserts the row and returns true, or the insert
\* throws (the CHECK, or the database: lost) and the catch returns false.
SubmitFeedback(replyToId, reaction, lost) ==
  /\ storage.kind # "none" /\ storage.initialized
  /\ Len(feedback) < MaxFeedback
  /\ IF replyToId = ""
       THEN /\ lastFeedback' = [replyToId |-> replyToId, reaction |-> reaction,
                                reached |-> FALSE, success |-> FALSE, before |-> feedback]
            /\ UNCHANGED feedback
       ELSE LET inserted == ReactionCheck(storage.kind, reaction) /\ ~lost
            IN /\ feedback' = IF inserted
                                THEN Append(feedback, [reply_to_id |-> replyToId,
                                                       reaction |-> reaction])
                                ELSE feedback
               /\ lastFeedback' = [replyToId |-> replyToId, reaction |-> reaction,
                                   reached |-> TRUE, success |-> inserted,
                                   before |-> feedback]
  /\ UNCHANGED outsideFeedback

\* ------------------------------------------------------------ email tools
\* An address is the sequence of its characters.
Addresses == {<<"a", "@", "b", ".", "c">>, <<"d", "@", "e", ".", "f">>,
              <<"a", "b">>, <<"a", "@", "b">>, <<"a", " ", "@", "b", ".", "c">>}
\* email.match(/^[^\s@]+@[^\s@]+\.[^\s@]+$/)
MatchesEmailFormat(email) ==
  \E i \in DOMAIN email, j \in DOMAIN email :
    /\ 1 < i /\ i + 1 < j /\ j < Len(email)
    /\ email[i] = "@" /\ email[j] = "."
    /\ \A k \in DOMAIN email : k \notin {i, j} => email[k] \notin {" ", "@"}
\* recipients / cc_recipients: string[], or left out by the caller
AddressLists ==
  {[given |-> FALSE, list |-> <<>>]} \cup
  {[given |-> TRUE, list |-> l] :
     l \in {<<>>} \cup {<<a>> : a \in Addresses}
                  \cup {<<a, b>> : a \in {<<"a", "@", "b", ".", "c">>}, b \in Addresses}}
NoMail == [tool |-> "none", recipients |-> NotGiven, cc |-> NotGiven,
           posted |-> <<>>, success |-> FALSE]

\* GraphClient.sendEmail(message): one graphPost to /users/{bot}/sendMail;
\* true when the post returned, false when it threw.
sendEmail(tool, recipients, cc, message, sent) ==
  mail' = [tool |-> tool, recipients |-> recipients, cc |-> cc,
           posted |-> <<message>>, success |-> sent]
\* a tool that returns { success: false } without calling sendEmail
MailRejected(tool, recipients, cc) ==
  mail' = [tool |-> tool, recipients |-> recipients, cc |-> cc,
           posted |-> <<>>, success |-> FALSE]

\* send_email handler
SendEmailTool(recipients, cc, sent) ==
  /\ IF ~recipients.given \/ Len(recipients.list) = 0
       THEN MailRejected("send_email", recipients, cc)
     ELSE IF \E i \in DOMAIN recipients.list : ~MatchesEmailFormat(recipients.list[i])
       THEN MailRejected("send_email", recipients, cc)
     ELSE sendEmail("send_email", recipients, cc,
                    [toRecipients |-> recipients.list,
                     ccRecipients |-> IF cc.given /\ Len(cc.list) > 0 THEN cc.list ELSE <<>>],
                    sent)
  /\ UNCHANGED outsideMail

\* send_meeting_summary_email handler: args.recipients.map throws a
\* TypeError when recipients is left out, and the handler's catch answers.
SendMeetingSummaryEmailTool(recipients, sent) ==
  /\ IF ~recipients.given
       THEN MailRejected("send_meeting_summary_email", recipients, NotGiven)
       ELSE sendEmail("send_meeting_summary_email", recipients, NotGiven,
                      [toRecipients |-> recipients.list, ccRecipients |-> <<>>], sent)
  /\ UNCHANGED outsideMail

\* GraphClient.sendTestEmail(recipientEmail)
SendTestEmail(recipientEmail, sent) ==
  /\ IF ~MatchesEmailFormat(recipientEmail)
       THEN MailRejected("sendTestEmail", [given |-> TRUE, list |-> <<recipientEmail>>], NotGiven)
       ELSE sendEmail("sendTestEmail", [given |-> TRUE, list |-> <<recipientEmail>>], NotGiven,
                      [toRecipients |-> <<recipientEmail>>, ccRecipients |-> <<>>], sent)
  /\ UNCHANGED outsideMail

UpdatePaths == {"client", "tool"}

GatewayInit ==
  /\ now = StartTime
  /\ accessToken = 0
  /\ tokenExpiry = 0
  /\ issued = <<>>
  /\ lastGet = [t |-> 0, prev |-> 0, prevE |-> 0, prevExpiry |-> 0, tok |-> 0,
                acquired |-> FALSE, calls |-> 0]
  /\ reqPc = "idle"
  /\ reqMethod = "GET"
  /\ attempt = 1
  /\ reqToken = 0
  /\ attemptLog = <<>>
  /\ sleeps = <<>>
  /\ lastError = NoError
  /\ reqResult = Pending
  /\ staleOutcome = [p \in UpdatePaths |-> "none"]
  /\ missingOutcome = [p \in UpdatePaths |-> "none"]

RouterInit ==
  /\ rPc = "idle"
  /\ invoked = <<>>
  /\ timeRangeCalls = 0
  /\ toolCalls = 0
  /\ startTime = 0
  /\ endTime = 0
  /\ reply = <<>>
  /\ rError = NothingThrown
  /\ memory = <<>>
  /\ apologies = {}

HandlerInit ==
  /\ hPc = "idle"
  /\ activity = NoActivity
  /\ loaded = <<>>
  /\ outbox = <<>>
  /\ writes = <<>>
  /\ handled = 0
  /\ context = NoContext

StorageInit ==
  /\ storage = NoStorage
  /\ lastCreate = NoCreate
  /\ rows = <<>>
  /\ cleared = [c \in Conversations |-> -1]
  /\ sPc = "idle"
  /\ lastRead = NoRead

BootInit ==
  /\ env = {}
  /\ bPc = "undeployed"
  /\ dbType = "sqlite"
  /\ reported = <<>>
  /\ appStarted = FALSE
  /\ delivered = 0
  /\ graphMissing = NotBuilt

MailInit == mail = NoMail

TranscriptInit == transcript = NoTranscript

BulkInit == bulk = NoBulk

PipelinesInit ==
  /\ pipelines = [h \in Pipelines |-> NoPipeline]
  /\ conversation = <<>>

LifecycleInit ==
  /\ store = NoStore
  /\ lastOp = NoOp

FeedbackInit ==
  /\ feedback = <<>>
  /\ lastFeedback = NoFeedback

RefreshInit ==
  /\ callers = [c \in Callers |-> Idle]
  /\ expiryFrom = 0

Init ==
  /\ GatewayInit /\ RouterInit /\ HandlerInit /\ StorageInit /\ BootInit
  /\ MailInit /\ RefreshInit /\ FeedbackInit /\ TranscriptInit
  /\ LifecycleInit
  /\ PipelinesInit
  /\ BulkInit

GatewayNext ==
  \/ \E m \in Methods : StartRequest(m)
  \/ \E resp \in Responses : GraphAttempt(resp)
  \/ ReturnToCaller
  \/ \E exists \in BOOLEAN, fresh \in BOOLEAN, transport \in BOOLEAN :
       UpdatePlannerTask(exists, fresh, transport)
  \/ \E exists \in BOOLEAN, fresh \in BOOLEAN : UpdateTaskTool(exists, fresh)
  \/ \E d \in TickSteps : Tick(d)

GatewaySpec == Init /\ [][GatewayNext]_vars

RouterNext ==
  \/ \E isGroup \in BOOLEAN, entities \in Mentioned : ReceiveMessage(isGroup, entities)
  \/ SendReply
  \/ StoreMessages
  \/ NewMessage
  \/ \E ok \in BOOLEAN : Initialize(ok)
  \/ \E p \in TimePhrases : CallCalculateTimeRange(p)
  \/ CallClearConversationHistory
  \/ \E name \in CapabilityNames, throws \in BOOLEAN : CallDelegate(name, throws)
  \/ \E c \in OracleTexts : OracleAnswers(c)
  \/ \E e \in Thrown : OracleFails(e)
  \/ ManagerReturns

RouterSpec == Init /\ [][RouterNext]_vars

StorageNext ==
  \/ \E type \in {"sqlite", "mssql"}, mssqlInit \in BOOLEAN, sqliteInit \in BOOLEAN :
       CreateStorage(type, mssqlInit, sqliteInit)
  \/ \E m \in MessageRecords : FreshOrRedelivered(<<m>>) /\ AddMessages(<<m>>)
  \/ \E m1 \in MessageRecords, m2 \in MessageRecords :
       m1 # m2 /\ FreshOrRedelivered(<<m1, m2>>) /\ AddMessages(<<m1, m2>>)
  \/ \E m1 \in MessageRecords, m2 \in MessageRecords, k \in 1..2 :
       m1 # m2 /\ FreshOrRedelivered(<<m1, m2>>) /\ AddMessagesFails(<<m1, m2>>, k)
  \/ \E conv \in Conversations : Clear(conv)
  \/ \E conv \in Conversations : Values(conv)
  \/ \E conv \in Conversations, range \in TimeRanges :
       GetMessagesByTimeRange(conv, range[1], range[2])
  \/ \E conv \in Conversations, limit \in Limits : GetRecentMessages(conv, limit)
  \/ \E conv \in Conversations : Length(conv)
  \/ \E conv \in Conversations, keywords \in KeywordLists, range \in SearchRanges,
        participants \in ParticipantLists, maxResults \in MaxResultsArgs :
       GetFilteredMessages(conv, keywords, range[1], range[2], participants, maxResults)
  \/ TakeResult

StorageSpec == Init /\ [][StorageNext]_vars

BootNext ==
  \/ \E e \in SUBSET Settings : Deploy(e)
  \/ \E mssqlInit \in BOOLEAN, sqliteInit \in BOOLEAN : Startup(mssqlInit, sqliteInit)
  \/ Dispatch
  \/ GetGraphClient

BootSpec == Init /\ [][BootNext]_vars

MailNext ==
  \/ \E recipients \in AddressLists, cc \in AddressLists, sent \in BOOLEAN :
       SendEmailTool(recipients, cc, sent)
  \/ \E recipients \in AddressLists, sent \in BOOLEAN :
       SendMeetingSummaryEmailTool(recipients, sent)
  \/ \E recipientEmail \in Addresses, sent \in BOOLEAN :
       SendTestEmail(recipientEmail, sent)

MailSpec == Init /\ [][MailNext]_vars

BulkNext ==
  \/ \E tasks \in TaskLists : BulkCreateTasks(tasks)
  \/ \E outcome \in CreateOutcomes : CreateTask(outcome)
  \/ BulkCreateTasksReturns
  \/ BulkDone

BulkSpec == Init /\ [][BulkNext]_vars

PipelinesNext ==
  \/ \E h \in Pipelines, isGroup \in BOOLEAN, entities \in Mentioned :
       MessageArrives(h, isGroup, entities)
  \/ \E h \in Pipelines, ok \in BOOLEAN : SendTyping(h, ok)
  \/ \E h \in Pipelines : ClearConversationHistory(h)
  \/ \E h \in Pipelines, apology \in BOOLEAN : ProcessRequestReturns(h, apology)
  \/ \E h \in Pipelines, ok \in BOOLEAN : SendFormattedResult(h, ok)
  \/ \E h \in Pipelines : AddTrackedMessages(h)

PipelinesSpec == Init /\ [][PipelinesNext]_vars

LifecycleNext ==
  \/ \E kind \in {"sqlite", "mssql"} : NewStore(kind)
  \/ \E ok \in BOOLEAN, fileLoads \in BOOLEAN, saved \in BOOLEAN :
       InitializeStore(ok, fileLoads, saved)
  \/ \E op \in DataOps, saved \in BOOLEAN : DataOp(op, saved)
  \/ \E saved \in BOOLEAN : CloseStore(saved)

LifecycleSpec == Init /\ [][LifecycleNext]_vars

TranscriptNext ==
  \E n \in 0..MaxCues : \E cues \in [1..n -> Cues] : ParseTranscript(cues)

TranscriptSpec == Init /\ [][TranscriptNext]_vars

FeedbackNext ==
  \/ \E type \in {"sqlite", "mssql"}, mssqlInit \in BOOLEAN, sqliteInit \in BOOLEAN :
       CreateStorage(type, mssqlInit, sqliteInit)
  \/ \E replyToId \in ReplyToIds, reaction \in Reactions, lost \in BOOLEAN :
       SubmitFeedback(replyToId, reaction, lost)

FeedbackSpec == Init /\ [][FeedbackNext]_vars

RefreshNext ==
  \/ \E c \in Callers : EnterGetAccessToken(c)
  \/ \E c \in Callers, granted \in BOOLEAN : AcquireSettles(c, granted)
  \/ \E c \in Callers : ResumeGetAccessToken(c)
  \/ \E c \in Callers : LeaveGetAccessToken(c)
  \/ \E d \in TickSteps : Tick(d)

RefreshSpec == Init /\ [][RefreshNext]_vars

\* ================================================================ claims
Range(q) == {q[i] : i \in DOMAIN q}
\* a failure the retry loop is meant to retry: 429, 5xx or a transport exception
RetryableFailure(st) == st = NetworkError \/ RetryableStatus(st)
\* the error object made for the failure of an attempt with status st
ErrorOfAttempt(st) == IF st = NetworkError THEN FetchError ELSE HttpError(st)

\* C1 -- single dispatch: for one inbound message at most one capability
\* handler (delegate_to_<name>) is invoked, whatever tool calls the oracle makes.
C1_SingleDispatch == Len(invoked) <= 1

\* C2 -- a terminal 4xx (400..499 except 429) ends the call at once: exactly
\* one HTTP attempt, no backoff sleep, and the call has failed.
C2_NoRetryOnTerminal4xx ==
  (Len(attemptLog) >= 1 /\ Terminal4xx(attemptLog[1].status))
    => /\ Len(attemptLog) = 1
       /\ sleeps = <<>>
       /\ reqPc = "done"
       /\ reqResult.tag = "error"

\* C3 -- when all maxAttempts attempts end in retryable failures, the call
\* fails with the last observed failure and never returns a success value.
C3_ExhaustedRetriesFail ==
  (/\ reqPc = "done"
   /\ Len(attemptLog) = Retries
   /\ \A i \in DOMAIN attemptLog : RetryableFailure(attemptLog[i].status))
    => reqResult = Failure(ErrorOfAttempt(attemptLog[Retries].status))

\* C4 -- when every attempt is answered 429 or 5xx, the call makes exactly 3
\* HTTP attempts, sleeps 1000 ms after the first failure and 2000 ms after the
\* second, and does not sleep after the last attempt.
C4_BackoffCount ==
  (/\ reqToken # 0
   /\ \A i \in DOMAIN attemptLog : RetryableStatus(attemptLog[i].status))
    => /\ Len(attemptLog) <= 3
       /\ reqPc = "done" => (Len(attemptLog) = 3 /\ sleeps = <<1000, 2000>>)
       /\ reqPc = "attempt" =>
            /\ Len(sleeps) = Len(attemptLog)
            /\ Len(sleeps) <= 2
            /\ \A i \in DOMAIN sleeps : sleeps[i] = <<1000, 2000>>[i]

\* C4 witness: a finished call whose three attempts were all answered 429 or 5xx.
C4_Witness ==
  /\ reqPc = "done"
  /\ Len(attemptLog) = 3
  /\ \A i \in DOMAIN attemptLog : RetryableStatus(attemptLog[i].status)
  /\ sleeps = <<1000, 2000>>

\* C5 -- if attempts 1..k-1 end in retryable failures and attempt k is
\* answered 2xx, the call returns a success result right after attempt k,
\* having slept exactly k-1 times with delays baseDelay*2^(i-1).
C5_SuccessAfterTransientFailures ==
  (/\ Len(attemptLog) >= 1
   /\ Ok(attemptLog[Len(attemptLog)].status)
   /\ \A i \in 1..(Len(attemptLog) - 1) : RetryableFailure(attemptLog[i].status))
    => /\ reqPc = "done"
       /\ reqResult.tag = "success"
       /\ sleeps = [i \in 1..(Len(attemptLog) - 1) |-> BaseDelayMs * Pow2(i - 1)]

\* C6 -- token reuse: a getAccessToken call made while the cached token's
\* provider-reported expiry E satisfies now < E - M returns that cached token
\* without contacting the identity provider; a call at now >= E - M triggers
\* a new acquisition.
C6_TokenReuse ==
  (lastGet.prev # 0 /\ lastGet.prevE # 0)
    => IF lastGet.t < lastGet.prevE - SafetyMarginMs
         THEN lastGet.tok = lastGet.prev /\ ~lastGet.acquired
         ELSE lastGet.acquired

\* C7 -- every HTTP attempt, first try or retry, presents a token with
\* now < E - M at the time of the attempt (E its provider-reported expiry).
C7_TokenFreshOnEveryAttempt ==
  \A i \in DOMAIN attemptLog :
    issued[attemptLog[i].tok] # 0
      => attemptLog[i].t < issued[attemptLog[i].tok] - SafetyMarginMs

\* C8 -- an update with a stale concurrency token reports an outcome the
\* caller can tell apart from the outcome of updating a non-existent task.
C8_DistinctConcurrencyError ==
  \A p \in UpdatePaths :
    (staleOutcome[p] # "none" /\ missingOutcome[p] # "none")
      => staleOutcome[p] # missingOutcome[p]

\* C9 -- a failed processRequest answers with one fixed generic apology: all
\* failing runs give the same reply and it holds no part of the error message.
C9_GenericApology ==
  /\ Cardinality(apologies) <= 1
  /\ \A a \in apologies : \A e \in Thrown : e.message \notin Range(a)

\* C10 -- calculate_time_range runs at most once per inbound message.
C10_BoundedTimeRangeResolution == timeRangeCalls <= 1

\* a text with something in it
NonEmptyText(parts) == \E i \in DOMAIN parts : parts[i] # ""

C12_MemoryWrittenAfterRoundTrip ==
  /\ \A i \in DOMAIN loaded : loaded[i].about # activity.id
  /\ Len(writes) <= 1
  /\ hPc \in {"routing", "processing", "sending", "storing"} => writes = <<>>
  /\ (activity.id # 0 /\ writes = <<>>)
       => \A i \in DOMAIN memory : memory[i].about # activity.id
  /\ (writes # <<>> /\ Processed(activity))
       => /\ writes[1] = <<Record(activity.id, "user"), Record(activity.id, "assistant")>>
          /\ Len(outbox) = 1

\* C12 witness: a second activity was routed with the first one's records
\* loaded as history, answered, and then stored as a pair.
C12_Witness ==
  /\ hPc = "idle"
  /\ Processed(activity)
  /\ loaded # <<>>
  /\ Len(outbox) = 1
  /\ writes = << <<Record(activity.id, "user"), Record(activity.id, "assistant")>> >>
  /\ \E i \in DOMAIN memory : memory[i] = Record(activity.id, "assistant")

\* how often record r occurs in the sequence q
Occurrences(q, r) == Cardinality({i \in DOMAIN q : q[i] = r})
SortedAscending(q) == \A i, j \in DOMAIN q : i < j => q[i].timestamp <= q[j].timestamp
SortedDescending(q) == \A i, j \in DOMAIN q : i < j => q[i].timestamp >= q[j].timestamp
Minimum(a, b) == IF a < b THEN a ELSE b

C14_ClearEmptiesConversation ==
  (sPc = "returned" /\ cleared[lastRead.conv] >= 0)
    => /\ ~lastRead.thrown
       /\ lastRead.result = <<>>
       /\ lastRead.count = 0

\* txt contains k, letters compared without regard to case
Contains(txt, k) ==
  \E s \in 0..(Len(txt) - Len(k)) :
    \A j \in DOMAIN k : toLowerCaseChar(txt[s + j]) = toLowerCaseChar(k[j])

\* C15 -- filtered search: getFilteredMessages returns exactly the records
\* of the conversation with start <= timestamp <= end whose content contains
\* at least one keyword and, when participants are given, whose author name
\* contains at least one participant (case-insensitive), newest first, cut
\* to maxResults records (5 when omitted), for every keyword list,
\* participant list and maxResults >= 0.
C15_FilteredSearch ==
  (sPc = "returned" /\ lastRead.op = "getFilteredMessages")
    => LET wanted == {r \in OfConversation(rows, lastRead.conv) :
                        /\ lastRead.a <= r.timestamp
                        /\ r.timestamp <= lastRead.b
                        /\ \E i \in DOMAIN lastRead.keywords :
                             Contains(r.content, lastRead.keywords[i])
                        /\ lastRead.participants.list # <<>>
                             => \E i \in DOMAIN lastRead.participants.list :
                                  Contains(r.name, lastRead.participants.list[i])}
           cap == IF lastRead.limit = Omitted THEN 5 ELSE lastRead.limit
           got == lastRead.result
       IN /\ ~lastRead.thrown
          /\ \A i \in DOMAIN got : got[i] \in wanted /\ Occurrences(got, got[i]) = 1
          /\ SortedDescending(got)
          /\ Len(got) = Minimum(cap, Cardinality(wanted))
          /\ \A r \in wanted \ RowSet(got) :
               \A i \in DOMAIN got : got[i].timestamp >= r.timestamp

\* C16 -- recent window: getRecentMessages(limit) returns the last
\* min(limit, count) records of the conversation, oldest first, for every
\* limit >= 0: none for limit = 0, all of them for a limit above the count.
C16_RecentWindow ==
  (sPc = "returned" /\ lastRead.op = "getRecentMessages" /\ lastRead.limit # Omitted)
    => LET all == OfConversation(rows, lastRead.conv)
           got == lastRead.result
       IN /\ Len(got) = Minimum(lastRead.limit, Cardinality(all))
          /\ \A i \in DOMAIN got : got[i] \in all /\ Occurrences(got, got[i]) = 1
          /\ SortedAscending(got)
          /\ \A r \in all \ RowSet(got) :
               \A i \in DOMAIN got : r.timestamp <= got[i].timestamp

\* C17 -- reads are timestamp-ordered whatever the order of the appends:
\* values() and getMessagesByTimeRange return the records sorted by
\* timestamp ascending.
C17_ReadsTimestampOrdered ==
  (sPc = "returned" /\ lastRead.op \in {"values", "getMessagesByTimeRange"})
    => SortedAscending(lastRead.result)

\* C17 witness: the conversation's rows were appended out of timestamp
\* order and a read returned them all.
C17_Witness ==
  /\ sPc = "returned"
  /\ lastRead.op = "values"
  /\ Len(lastRead.result) >= 2
  /\ Len(lastRead.result) = countMessages(rows, lastRead.conv)
  /\ \E i, j \in DOMAIN rows :
       /\ i < j
       /\ rows[i].conversation_id = lastRead.conv
       /\ rows[j].conversation_id = lastRead.conv
       /\ rows[i].timestamp > rows[j].timestamp

\* C18 -- storage fallback: createStorage returns an initialised store or
\* throws; when the type is mssql and the MSSQL initialisation fails it
\* returns the initialised SQLite store, never the failed MSSQL store.
C18_StorageFallback ==
  /\ storage.kind # "none" => storage.initialized
  /\ lastCreate.type # "none"
       => /\ lastCreate.thrown <=> storage.kind = "none"
          /\ storage.kind = "mssql" => lastCreate.mssqlOk
          /\ (lastCreate.type = "mssql" /\ ~lastCreate.mssqlOk /\ lastCreate.sqliteOk)
               => storage = [kind |-> "sqlite", initialized |-> TRUE]

\* C18 witness: the type was mssql, its initialisation failed, and the
\* store in use is the initialised SQLite store.
C18_Witness ==
  /\ lastCreate.type = "mssql"
  /\ ~lastCreate.mssqlOk
  /\ lastCreate.sqliteOk
  /\ storage.kind = "sqlite"
  /\ storage.initialized

\* the settings the program calls required
RequiredSettings == Range(requiredEnvVars) \cup Range(graphRequiredVars)

\* C19 -- fatal configuration error: when a required setting is missing
\* the process exits before app.start, no activity is ever dispatched, and
\* the reported error names every missing required setting.
C19_FatalConfigurationError ==
  (bPc \in {"running", "exited"} /\ RequiredSettings \ env # {})
    => /\ bPc = "exited"
       /\ ~appStarted
       /\ delivered = 0
       /\ (RequiredSettings \ env) \subseteq Range(reported)

\* C20 -- auth failure propagates unretried: a getAccessToken call whose
\* acquisition fails asks the identity provider exactly once and leaves the
\* cached token and expiry as they were; the graphGet/graphPost around it
\* ends with that error having made no HTTP attempt and slept no backoff.
C20_AuthFailureUnretried ==
  /\ (lastGet.acquired /\ lastGet.tok = 0)
       => /\ lastGet.calls = 1
          /\ accessToken = lastGet.prev
          /\ tokenExpiry = lastGet.prevExpiry
  /\ (reqPc # "idle" /\ lastGet.tok = 0)
       => /\ reqPc = "done"
          /\ reqResult = Failure(AuthError)
          /\ attemptLog = <<>>
          /\ sleeps = <<>>
          /\ attempt = 1

\* C20 witness: a graphGet/graphPost ended by a failed acquisition while a
\* token, expired by then, was still in the cache.
C20_Witness ==
  /\ reqPc = "done"
  /\ lastGet.acquired
  /\ lastGet.tok = 0
  /\ lastGet.prev # 0
  /\ accessToken = lastGet.prev
  /\ reqResult = Failure(AuthError)

InvalidRequest(m) ==
  \/ ~m.recipients.given
  \/ Len(m.recipients.list) = 0
  \/ \E i \in DOMAIN m.recipients.list : ~MatchesEmailFormat(m.recipients.list[i])
  \/ \E i \in DOMAIN m.cc.list : ~MatchesEmailFormat(m.cc.list[i])

\* C21 -- validation before network: an email tool (send_email,
\* send_meeting_summary_email, sendTestEmail) given no recipient, or a
\* recipient or CC address that is not of the form x@y.z, posts nothing to
\* the Graph API and returns a failure.
C21_ValidationBeforeNetwork ==
  (mail.tool # "none" /\ InvalidRequest(mail)) =>
    (mail.posted = <<>> /\ ~mail.success)

\* C22 -- listening without replying: while the handler works on a message
\* of a group conversation that does not mention the bot, no oracle call is
\* made, no capability or tool runs and no reply is sent, and the one change
\* to the conversation memory is the append of the inbound record.
C22_ListeningWithoutReplying ==
  [][(activity'.id # 0 /\ activity'.isGroup /\ "bot" \notin activity'.entities) =>
       /\ rPc' = "idle"
       /\ UNCHANGED <<rPc, invoked, timeRangeCalls, toolCalls, reply, apologies>>
       /\ outbox' = <<>>
       /\ memory' = IF hPc = "storing" THEN Append(memory, Record(activity.id, "user"))
                                       ELSE memory]_vars

\* C23 -- tool set offered to the oracle: the functions registered on the
\* prompt are one delegate tool per registered capability and the
\* time-range tool, nothing else; so every tool call the oracle makes runs a
\* capability or resolves the time range.
C23_ToolSetOffered ==
  [][toolCalls' = toolCalls + 1 =>
       /\ RegisteredTools = {delegateTool(n) : n \in CapabilityNames}
                              \cup {<<"calculate_time_range", "">>}
       /\ \/ \E n \in CapabilityNames : invoked' = Append(invoked, n)
          \/ timeRangeCalls' = timeRangeCalls + 1]_vars

\* C24 -- context frame: from the creation of a message's context to the
\* end of its pipeline no step changes the context's text, conversationId,
\* user identity or memory handle; the time range (startTime, endTime) is
\* the only part of the context that the router assigns.
C24_ContextFrame ==
  [][hPc # "idle" => context' = context]_vars

\* the router has resolved a time range and cleared the history mid-pipeline
C24_Witness ==
  /\ hPc = "processing"
  /\ context.text # ""
  /\ timeRangeCalls > 0
  /\ startTime # ContextDefaultStart
  /\ loaded # <<>> /\ memory = <<>>

\* C25 -- unmutexed token refresh stays consistent: with overlapping
\* getAccessToken calls, every token a caller gets was issued by the
\* provider, and the cached accessToken always stands with the tokenExpiry
\* set by the same acquisition: never with another acquisition's expiry,
\* never without one.
C25_ConsistentRefresh ==
  /\ \A c \in Callers :
       callers[c].pc = "returned" => callers[c].ret \in 1..Len(issued)
  /\ accessToken # 0 => (tokenExpiry # 0 /\ expiryFrom = accessToken)

\* both callers met an expired cache, each acquired a token of its own, and
\* the acquisition that was issued first wrote the cache last
C25_Witness ==
  /\ \A c \in Callers : callers[c].pc = "returned" /\ callers[c].result # 0
  /\ callers[1].result # callers[2].result
  /\ accessToken = 2
  /\ Len(issued) = 3

\* The batches an addMessages call may be handed, and the rows of one
\* conversation in stored order.
Batches ==
  {<<m>> : m \in MessageRecords} \cup
  {q \in {<<m1, m2>> : m1 \in MessageRecords, m2 \in MessageRecords} : q[1] # q[2]}
RecordsOf(t, conv) == SelectSeq(t, LAMBDA r : r.conversation_id = conv)
IsPrefix(p, q) == Len(p) <= Len(q) /\ SubSeq(q, 1, Len(p)) = p

\* C26 -- append-only store: an addMessages call, whether it returns or
\* throws, raises each conversation's message count by the number of records
\* of that conversation it was passed (a record passed again is stored
\* again); a read leaves the rows as they are; and every step that is not a
\* clear keeps all stored rows, unaltered and in place.
C26_AppendOnlyStore ==
  [][/\ \A batch \in Batches :
          (AddMessages(batch) \/ \E k \in DOMAIN batch : AddMessagesFails(batch, k)) =>
            \A c \in Conversations :
              countMessages(rows', c) = countMessages(rows, c) + countMessages(batch, c)
     /\ sPc' = "returned" => rows' = rows
     /\ (\A conv \in Conversations : ~Clear(conv)) => IsPrefix(rows, rows')]_vars

\* C29 -- conversation isolation: an operation of the ConversationMemory
\* bound to conversation self returns only records of self and leaves the
\* records of every other conversation as they are.  (self is no argument of
\* addMessages and getFilteredMessages: a step of theirs is a step of the
\* memory bound to self, whichever self is.)
C29_ConversationIsolation ==
  [][\A self \in Conversations :
       /\ \A batch \in Batches :
            AddMessages(batch) =>
              \A c \in Conversations \ {self} : RecordsOf(rows', c) = RecordsOf(rows, c)
       /\ Clear(self) =>
            \A c \in Conversations \ {self} : RecordsOf(rows', c) = RecordsOf(rows, c)
       /\ (sPc' = "returned" /\ lastRead'.op # "getFilteredMessages"
             /\ lastRead'.conv = self) =>
            \A i \in DOMAIN lastRead'.result : lastRead'.result[i].conversation_id = self
       /\ (sPc' = "returned" /\ lastRead'.op = "getFilteredMessages") =>
            \A i \in DOMAIN lastRead'.result : lastRead'.result[i].conversation_id = self
    ]_vars

\* C30 -- atomic batch append: when the insert of one record of a batch
\* fails, addMessages leaves none of the batch's records in the store, with
\* either backend.
C30_AtomicBatchAppend ==
  [][\A batch \in Batches, k \in 1..2 : AddMessagesFails(batch, k) => rows' = rows]_vars

\* C27 -- feedback recording outcome: recordFeedback returns true exactly
\* when a feedback row was stored, and on false the feedback table is as it
\* was; a reaction other than 'like' or 'dislike' is answered false; and a
\* feedback activity without replyToId never reaches the store.
C27_FeedbackOutcome ==
  /\ lastFeedback.replyToId = "" => (~lastFeedback.reached /\ feedback = lastFeedback.before)
  /\ lastFeedback.reached =>
       /\ lastFeedback.success <=>
            feedback = Append(lastFeedback.before,
                              [reply_to_id |-> lastFeedback.replyToId,
                               reaction |-> lastFeedback.reaction])
       /\ ~lastFeedback.success => feedback = lastFeedback.before
       /\ lastFeedback.reaction \notin {<<"l", "i", "k", "e">>,
                                        <<"d", "i", "s", "l", "i", "k", "e">>}
            => ~lastFeedback.success

\* C28 -- transcript timestamp attribution: parseVttTranscript returns one
\* entry per cue, in cue order, each with the speaker and text of its cue
\* and the start timestamp of that same cue.
C28_TimestampAttribution ==
  transcript.parsed =>
    /\ Len(transcript.entries) = Len(transcript.cues)
    /\ \A i \in DOMAIN transcript.cues :
         /\ transcript.entries[i].speakerName = transcript.cues[i].speaker
         /\ transcript.entries[i].text = TextOf(transcript.cues[i])
         /\ transcript.entries[i].timestamp = StartOf(i)

\* C31 -- backend equivalence: a read that has returned on one store has an
\* outcome the other store can give for the same rows and the same
\* arguments: it throws on both or on neither, and the result returned is
\* one the other store can return.
C31_BackendEquivalence ==
  (sPc = "returned" /\ lastRead.op = "getFilteredMessages") =>
    LET r == lastRead
        onSqlite == storage.kind = "sqlite"
        otherThrows == IF onSqlite THEN FALSE ELSE sqliteFilterThrows(r.keywords)
        otherResults ==
          IF onSqlite
            THEN mssqlFiltered(rows, r.conv, r.keywords, r.a, r.b, r.participants, r.limit)
            ELSE sqliteFiltered(rows, r.conv, r.keywords, r.a, r.b, r.participants, r.limit)
    IN /\ r.thrown = otherThrows
       /\ ~r.thrown => r.result \in otherResults

\* C32 -- storage lifecycle: a data operation on a store on which
\* initialize() was never called, or close() was called and initialize() not
\* since, throws and leaves the stored data as it was; a close() on a closed
\* store changes nothing; and on a store initialised again after a close,
\* data operations work.
C32_StorageLifecycle ==
  /\ (lastOp.op \in DataOps /\ lastOp.phase \in {"new", "closed"}) =>
       (lastOp.threw /\ lastOp.same)
  /\ (lastOp.op = "close" /\ lastOp.phase = "closed") => lastOp.same
  /\ (lastOp.op \in DataOps /\ lastOp.phase = "open") => ~lastOp.threw
  /\ (lastOp.op = "initialize" /\ lastOp.phase = "closed" /\ ~lastOp.threw) =>
       store.handle = "open"

\* a record was added to a store that had been closed and initialised again
C32_Witness ==
  /\ lastOp.op = "addMessages" /\ lastOp.phase = "open" /\ ~lastOp.threw
  /\ store.reopened /\ store.rows = 2

C34_ClearThenAppend ==
  [][\A h \in Pipelines :
       (AddTrackedMessages(h) /\ pipelines[h].cleared) =>
         conversation' = createMessageRecords(pipelines[h].activity, TRUE)]_vars

\* C38 -- every inbound message is recorded exactly once: a handler that
\* has ended, silent or replying, with the response or the apology, or
\* failing at a send, has stored its inbound record exactly once.
C38_InboundRecordedOnce ==
  \A h \in Pipelines : pipelines[h].pc \in Ended => pipelines[h].recorded = 1

\* C35 -- at-most-once side effects under retry: among the attempts of one
\* graphPost call (one createPlannerTask or sendEmail), the server carried
\* out at most one.
C35_AtMostOnceSideEffects ==
  reqMethod = "POST" =>
    Cardinality({i \in DOMAIN attemptLog : attemptLog[i].performed}) <= 1

\* C36 -- gateway errors become sentinel values: when the call under a
\* public operation has ended, the operation returns something other than
\* its empty result only if the last HTTP attempt succeeded.
C36_SentinelOnFailure ==
  reqPc = "done" =>
    \A op \in Operations :
      (MethodOf(op) = reqMethod /\ PublicResult(op, reqResult) # EmptyResult(op)) =>
        /\ attemptLog # <<>>
        /\ Ok(attemptLog[Len(attemptLog)].status)

\* the titles of a list of the answer
TitlesIn(list) == {list[k] : k \in DOMAIN list}
\* every task is in exactly one of created and failed, once, and success
\* says that nothing failed
AccountedFor(b) ==
  /\ Len(b.returned.created) + Len(b.returned.failed) = Len(b.tasks)
  /\ TitlesIn(b.returned.created) \cup TitlesIn(b.returned.failed) = DOMAIN b.tasks
  /\ TitlesIn(b.returned.created) \cap TitlesIn(b.returned.failed) = {}
  /\ b.returned.success <=> b.returned.failed = <<>>

\* C37 as stated -- bulk task accounting: when bulk_create_tasks has
\* returned, every task led to exactly one createPlannerTask call, every
\* task is in exactly one of created and failed, and success is true exactly
\* when failed is empty.
C37_BulkAccounting ==
  bulk.pc = "returned" =>
    /\ \A i \in DOMAIN bulk.tasks : bulk.calls[i] = 1
    /\ AccountedFor(bulk)

\* C37 amended -- when bulk_create_tasks has returned, every task led to
\* exactly one createPlannerTask call, whatever happened to the tasks before
\* it, except a task whose due_date is no date, which led to none and is in
\* failed; every task is in exactly one of created and failed, and success
\* is true exactly when failed is empty.
C37_BulkAccountingAmended ==
  bulk.pc = "returned" =>
    /\ \A i \in DOMAIN bulk.tasks :
         IF bulk.tasks[i] # "" /\ ~IsDate(bulk.tasks[i])
           THEN bulk.calls[i] = 0 /\ i \in TitlesIn(bulk.returned.failed)
           ELSE bulk.calls[i] = 1
    /\ AccountedFor(bulk)

\* three tasks: the first failed at the API, the second has a due date that
\* is no date, the third was created all the same
C37_Witness ==
  /\ bulk.pc = "returned"
  /\ bulk.tasks = <<"", "end of sprint", "2026-01-15">>
  /\ bulk.calls = <<1, 0, 1>>
  /\ bulk.returned = [success |-> FALSE, created |-> <<3>>, failed |-> <<1, 2>>]

====
